---------------------------- MODULE Spec2Model ----------------------------
(***************************************************************************)
(* State-machine model of the ETFs simulator backend:                      *)
(*   - marketdata.IndexService: the cache of per-symbol statistics, its    *)
(*     Initialize loop (startup and background refresh), the RWMutex and   *)
(*     the freshness timestamp;                                            *)
(*   - handler.handleGetIndexes and handler.handleSimulateByYears /        *)
(*     handleSimulateByTarget with calculatePortfolioRates.                *)
(*                                                                         *)
(* Units.  Go float64 quantities are carried as exact integers:            *)
(*   time                      hours                                       *)
(*   raw statistics            1/1000 of a percent                         *)
(*   cached rates (2 decimals) 1/100 of a percent                          *)
(*   portfolio weights         1/1000 of a percent                         *)
(*   rates given to simulate   1/10^7 of a percent (cached rate x weight)  *)
(*   contribution growth       1/100 of a percent                          *)
(* so sums and comparisons are those of real arithmetic; the rounding of   *)
(* float64 additions is not represented.                                   *)
(***************************************************************************)
EXTENDS Integers, Sequences, FiniteSets, TLC

VARIABLES
    cache,       \* IndexService.cache: map symbol -> *IndexInfo
    mutex,       \* IndexService.cacheMutex: <<>> when free, <<r>> held by call r
    lastUpdate,  \* IndexService.lastUpdate
    now,         \* the wall clock, time.Now()
    calls,       \* the calls of Initialize: call 0 at startup, 1.. refresh goroutines
    h            \* the HTTP handler goroutine serving the current request

vars == <<cache, mutex, lastUpdate, now, calls, h>>

-----------------------------------------------------------------------------
(* Bounds of the model *)

MaxClock == 36          \* the clock stops here (hours)
TickHours == 12         \* granularity of the clock (hours)

-----------------------------------------------------------------------------
(* Optional values (Go nil pointers, "value, ok" results) *)

None == <<>>
Some(x) == <<x>>
IsSome(o) == Len(o) = 1
Val(o) == o[1]

\* Go's int(x) / integer division: truncation toward zero.
TruncDiv(a, b) == IF a >= 0 THEN a \div b ELSE -((-a) \div b)

\* math.Round(a / b) for b > 0: nearest integer, halves away from zero.
RoundDiv(a, b) == IF a >= 0 THEN (2 * a + b) \div (2 * b) ELSE -((2 * (-a) + b) \div (2 * b))

-----------------------------------------------------------------------------
(* marketdata: the supported indexes and the provider *)

DefaultSupportedIndexes == <<"SPY", "QQQ", "EFA">>

NumIndexes == Len(DefaultSupportedIndexes)

Symbols == {DefaultSupportedIndexes[k] : k \in 1..NumIndexes}

IndexName == [s \in Symbols |->
    CASE s = "SPY" -> "S&P 500" [] s = "QQQ" -> "NASDAQ 100" [] OTHER -> "MSCI EAFE"]

cacheTTL == 24

\* time.Time{}: the zero value lastUpdate has before the first Initialize.
\* Any instant at least one TTL before the start of the clock behaves alike.
ZeroTime == 0 - cacheTTL

PointsPerYear == 12

\* Years of monthly history the provider may return for a symbol: too short
\* for any window, or long enough for the 10-year (EFA) or the 20-year window.
SeriesYears(sym) == IF sym = "EFA" THEN {5, 15} ELSE {5, 25}

\* What FetchHistoricalData returns on success: the series of `sym` as the
\* provider has it at time t, `years` years long.
HistoricalData(sym, t, years) ==
    [Symbol |-> sym, FetchedAt |-> t, NumPoints |-> years * PointsPerYear]

\* The provider's return history, in 1/1000 percent: the median rolling return
\* of a symbol's series as of time t over a window of w years.
ProviderMedian(sym, t, w) ==
    (CASE sym = "SPY" -> 8734 [] sym = "QQQ" -> 10216 [] OTHER -> 4555) + 13 * t + 7 * w

\* CalculateStats: a series shorter than the window is the insufficient-data
\* error and a series of exactly the window has no rolling return, the other
\* error; otherwise the statistics of the rolling returns of the series.
CalculateStats(data, rollingYears) ==
    IF data.NumPoints <= PointsPerYear * rollingYears
    THEN None
    ELSE LET m == ProviderMedian(data.Symbol, data.FetchedAt, rollingYears)
         IN  Some([AnnualizedReturn   |-> m,
                   Percentile5Return  |-> m - 9006 - 3 * data.FetchedAt,
                   Percentile95Return |-> m + 7004 + 5 * data.FetchedAt,
                   StandardDeviation  |-> 4002 + data.FetchedAt])

\* roundTo2Decimals: float64(int(v*100+0.5))/100, from 1/1000 to 1/100 percent.
roundTo2Decimals(v) == TruncDiv(v + 5, 10)

MakeIndexInfo(sym, stats, rollingYears) ==
    [Symbol             |-> sym,
     Name               |-> IndexName[sym],
     MedianReturn       |-> roundTo2Decimals(stats.AnnualizedReturn),
     PessimisticReturn  |-> roundTo2Decimals(stats.Percentile5Return),
     OptimisticReturn   |-> roundTo2Decimals(stats.Percentile95Return),
     StandardDeviation  |-> roundTo2Decimals(stats.StandardDeviation),
     RollingPeriodYears |-> rollingYears]

\* fetchAndCalculate after a successful fetch: the 20-year window, then the
\* 10-year window, then the error.
CalculateWithFallback(data) ==
    LET s20 == CalculateStats(data, 20)
        s10 == CalculateStats(data, 10)
    IN  IF IsSome(s20) THEN Some(MakeIndexInfo(data.Symbol, Val(s20), 20))
        ELSE IF IsSome(s10) THEN Some(MakeIndexInfo(data.Symbol, Val(s10), 10))
        ELSE None

\* Every outcome fetchAndCalculate can have for `sym` at time t: None for an
\* error (the fetch failed, or both calculations failed), else a new IndexInfo.
FetchOutcomes(sym, t) ==
    {None} \cup {CalculateWithFallback(HistoricalData(sym, t, y)) : y \in SeriesYears(sym)}

-----------------------------------------------------------------------------
(* marketdata.IndexService *)

\* The calls of Initialize: the startup call and the refresh goroutines that
\* may exist at the same time.
StartupCall == 0
Refreshers == {1, 2}
Calls == {StartupCall} \cup Refreshers

IdleCall == [pc |-> "idle", i |-> 1, info |-> None, loaded |-> {}, result |-> "none"]

\* A call of Initialize entering its loop.
EnteredCall == [pc |-> "loop", i |-> 1, info |-> None, loaded |-> {}, result |-> "none"]

\* The service takes requests once the startup call of Initialize returned.
Serving == calls[StartupCall].pc = "done"

\* Mutant of MapStore: the fields of the published record are assigned one
\* by one, and a reader comes in between.
MapStore_FieldByField(c, sym, info) ==
    IF sym \in DOMAIN c
    THEN [c EXCEPT ![sym].MedianReturn = info.MedianReturn,
                   ![sym].PessimisticReturn = info.PessimisticReturn]
    ELSE [k \in (DOMAIN c) \cup {sym} |-> IF k = sym THEN info ELSE c[k]]

\* s.cache[sym] = info
MapStore(c, sym, info) ==
    [k \in (DOMAIN c) \cup {sym} |-> IF k = sym THEN info ELSE c[k]]

\* info, ok := s.cache[symbol]
MapLookup(c, sym) == IF sym \in DOMAIN c THEN Some(c[sym]) ELSE None

\* Mutant of IsFresh: the comparison includes the TTL itself.
IsFresh_Inclusive(t, last) == t - last <= cacheTTL

\* time.Since(s.lastUpdate) < s.cacheTTL
IsFresh(t, last) == t - last < cacheTTL

\* Mutant of LoadFails: a failed load drops the symbol from the map.
LoadFails_Evicts(r) ==
    /\ calls[r].pc = "loop"
    /\ calls[r].i <= NumIndexes
    /\ None \in FetchOutcomes(DefaultSupportedIndexes[calls[r].i], now)
    /\ mutex = None
    /\ cache' = [k \in (DOMAIN cache) \ {DefaultSupportedIndexes[calls[r].i]} |-> cache[k]]
    /\ calls' = [calls EXCEPT ![r].i = @ + 1]
    /\ UNCHANGED <<mutex, lastUpdate, now, h>>

\* Initialize, line 64: fetchAndCalculate(idx) fails; the loop continues.
LoadFails(r) ==
    /\ calls[r].pc = "loop"
    /\ calls[r].i <= NumIndexes
    /\ None \in FetchOutcomes(DefaultSupportedIndexes[calls[r].i], now)
    /\ calls' = [calls EXCEPT ![r].i = @ + 1]
    /\ UNCHANGED <<cache, mutex, lastUpdate, now, h>>

\* Mutant of LoadSucceeds: the lock is taken before fetchAndCalculate and is
\* held when it returns.
LoadSucceeds_UnderLock(r) ==
    /\ calls[r].pc = "loop"
    /\ calls[r].i <= NumIndexes
    /\ mutex = None
    /\ \E o \in FetchOutcomes(DefaultSupportedIndexes[calls[r].i], now) :
         /\ IsSome(o)
         /\ calls' = [calls EXCEPT ![r].pc = "locked", ![r].info = o]
    /\ mutex' = Some(r)
    /\ UNCHANGED <<cache, lastUpdate, now, h>>

\* Initialize, line 64: fetchAndCalculate(idx) returns a new IndexInfo.
LoadSucceeds(r) ==
    /\ calls[r].pc = "loop"
    /\ calls[r].i <= NumIndexes
    /\ \E o \in FetchOutcomes(DefaultSupportedIndexes[calls[r].i], now) :
         /\ IsSome(o)
         /\ calls' = [calls EXCEPT ![r].pc = "lock", ![r].info = o]
    /\ UNCHANGED <<cache, mutex, lastUpdate, now, h>>

\* Initialize, line 74: s.cacheMutex.Lock()
Lock(r) ==
    /\ calls[r].pc = "lock"
    /\ mutex = None
    /\ mutex' = Some(r)
    /\ calls' = [calls EXCEPT ![r].pc = "locked"]
    /\ UNCHANGED <<cache, lastUpdate, now, h>>

\* Initialize, lines 75-76: s.cache[idx.Symbol] = info; s.cacheMutex.Unlock()
StoreAndUnlock(r) ==
    /\ calls[r].pc = "locked"
    /\ mutex = Some(r)
    /\ LET sym == DefaultSupportedIndexes[calls[r].i]
       IN  /\ cache' = MapStore(cache, sym, Val(calls[r].info))
           /\ calls' = [calls EXCEPT ![r].pc = "loop", ![r].i = @ + 1,
                                     ![r].info = None,
                                     ![r].loaded = @ \cup {sym}]
    /\ mutex' = None
    /\ UNCHANGED <<lastUpdate, now, h>>

\* Initialize, line 88: s.lastUpdate = time.Now(), written without the lock.
Stamp(r) ==
    /\ calls[r].pc = "loop"
    /\ calls[r].i > NumIndexes
    /\ lastUpdate' = now
    /\ calls' = [calls EXCEPT ![r].pc = "check"]
    /\ UNCHANGED <<cache, mutex, now, h>>

\* Initialize, lines 90-95: the error if the map is empty, else nil.
Return(r) ==
    /\ calls[r].pc = "check"
    /\ calls' = [calls EXCEPT ![r].pc = "returned",
                              ![r].result = IF Cardinality(DOMAIN cache) = 0
                                            THEN "err" ELSE "nil"]
    /\ UNCHANGED <<cache, mutex, lastUpdate, now, h>>

\* The caller has the result: main goes on to serve, a refresh goroutine logs
\* the error and ends.
Exit(r) ==
    /\ calls[r].pc = "returned"
    /\ calls' = [calls EXCEPT ![r] = [IdleCall EXCEPT !.pc = IF r = StartupCall
                                                            THEN "done" ELSE "idle"]]
    /\ UNCHANGED <<cache, mutex, lastUpdate, now, h>>

\* RefreshIfNeeded: nothing while the cache is fresh, else a new goroutine
\* that calls Initialize.  R is the set of goroutine slots of the
\* specification; the new goroutine takes the first one not running.
RefreshIfNeeded(R) ==
    IF IsFresh(now, lastUpdate)
    THEN UNCHANGED calls
    ELSE \E r \in R :
           /\ calls[r].pc = "idle"
           /\ \A q \in R : calls[q].pc = "idle" => r <= q
           /\ calls' = [calls EXCEPT ![r] = EnteredCall]

\* Time passes.
Tick ==
    /\ now + TickHours <= MaxClock
    /\ now' = now + TickHours
    /\ UNCHANGED <<cache, mutex, lastUpdate, calls, h>>

-----------------------------------------------------------------------------
(* handler: the goroutine of one request *)

NoSums == [median |-> 0, pessimistic |-> 0, optimistic |-> 0]

\* pc: where the goroutine is.  req, k, sums, breakdown: the locals of the
\* simulate handlers and of calculatePortfolioRates.  resp: the response
\* written.  read, arrivedStale, readStale, spawned record what the request
\* did: the results of its cache lookups, whether the cache age exceeded the
\* TTL when it arrived and when it read, and whether it started a reload.
IdleHandler ==
    [pc |-> "idle", req |-> None, k |-> 1, sums |-> NoSums, breakdown |-> <<>>,
     read |-> <<>>, arrivedStale |-> FALSE, readStale |-> FALSE,
     spawned |-> FALSE, resp |-> None]

\* The cache age exceeds the TTL.
Expired == now - lastUpdate > cacheTTL

\* handleGetIndexes, line 23: h.indexService.RefreshIfNeeded()
GetIndexesRefresh(R) ==
    /\ Serving
    /\ h.pc = "idle"
    /\ RefreshIfNeeded(R)
    /\ h' = [IdleHandler EXCEPT !.pc = "getAll", !.arrivedStale = Expired,
                                !.spawned = (calls' # calls)]
    /\ UNCHANGED <<cache, mutex, lastUpdate, now>>

\* handleGetIndexes, lines 25-29: GetAllIndexes under the read lock, then the
\* response.
GetIndexesRespond ==
    /\ h.pc = "getAll"
    /\ mutex = None
    /\ h' = [h EXCEPT !.pc = "responded",
                      !.read = <<{cache[s] : s \in DOMAIN cache}>>,
                      !.readStale = Expired,
                      !.resp = Some([kind |-> "indexes", status |-> 200,
                                     indexes |-> {cache[s] : s \in DOMAIN cache}])]
    /\ UNCHANGED <<cache, mutex, lastUpdate, now, calls>>

-----------------------------------------------------------------------------
(* handler: POST /api/v1/simulate/years and /api/v1/simulate/target *)

\* One percent, in the unit of the rates given to the simulator.
RateUnit == 10 * 1000 * 1000

\* applyDefault(req.AnnualReturnRate, 7.0)
DefaultAnnualReturnRate == 7

\* applyDefault(ptr, defaultVal)
applyDefault(ptr, defaultVal) == IF IsSome(ptr) THEN Val(ptr) ELSE defaultVal

\* round1 of a cached rate (1/100 percent), in 1/10 percent.
round1OfCached(v) == RoundDiv(v, 10)

\* round1 of a blended rate (1/10^7 percent), in 1/10 percent.
round1OfBlended(v) == RoundDiv(v, RateUnit \div 10)

ErrorResponse(msg) ==
    [kind |-> "simulate", status |-> 400, error |-> msg, sim |-> None,
     HasRange |-> FALSE, Portfolio |-> None, BlendedMedianReturn |-> None]

\* The first validations of handleSimulateByYears (lines 168-180): the error
\* message, or "" when they pass.
ValidateYears(req) ==
    IF req.InitialInvestment < 0 THEN "initialInvestment must be >= 0"
    ELSE IF req.MonthlyContribution < 0 THEN "monthlyContribution must be >= 0"
    ELSE IF req.Years < 1 \/ req.Years > 50 THEN "years must be between 1 and 50"
    ELSE ""

\* handleSimulateByTarget, lines 316-321: the target month, December by default.
TargetEndMonth(req) == IF IsSome(req.TargetMonth) THEN Val(req.TargetMonth) ELSE 12

\* Mutant of TargetTotalMonths: the months of the two dates are left out.
TargetTotalMonths_YearsOnly(req) == (req.TargetYear - req.today[1]) * 12

\* handleSimulateByTarget, line 339.
TargetTotalMonths(req) ==
    (req.TargetYear - req.today[1]) * 12 + (TargetEndMonth(req) - req.today[2])

\* Mutant of ValidateTarget: the upper bound of the period is not checked.
ValidateTarget_NoUpperBound(req) ==
    LET endMonth == TargetEndMonth(req)
        startYear == req.today[1]
        startMonth == req.today[2]
    IN  IF req.InitialInvestment < 0 THEN "initialInvestment must be >= 0"
        ELSE IF req.MonthlyContribution < 0 THEN "monthlyContribution must be >= 0"
        ELSE IF endMonth < 1 \/ endMonth > 12 THEN "targetMonth must be between 1 and 12"
        ELSE IF \/ req.TargetYear < startYear
                \/ (req.TargetYear = startYear /\ endMonth <= startMonth)
             THEN "target date must be in the future"
        ELSE IF TargetTotalMonths(req) < 1 THEN "simulation period must be at least 1 month"
        ELSE ""

\* The first validations of handleSimulateByTarget (lines 306-347).
ValidateTarget(req) ==
    LET endMonth == TargetEndMonth(req)
        startYear == req.today[1]
        startMonth == req.today[2]
    IN  IF req.InitialInvestment < 0 THEN "initialInvestment must be >= 0"
        ELSE IF req.MonthlyContribution < 0 THEN "monthlyContribution must be >= 0"
        ELSE IF endMonth < 1 \/ endMonth > 12 THEN "targetMonth must be between 1 and 12"
        ELSE IF \/ req.TargetYear < startYear
                \/ (req.TargetYear = startYear /\ endMonth <= startMonth)
             THEN "target date must be in the future"
        ELSE IF TargetTotalMonths(req) < 1 THEN "simulation period must be at least 1 month"
        ELSE IF TargetTotalMonths(req) > 600 THEN "simulation period cannot exceed 50 years"
        ELSE ""

ValidateRequest(req) ==
    IF req.mode = "years" THEN ValidateYears(req) ELSE ValidateTarget(req)

\* calculatePortfolioRates, lines 605-611: the first allocation from k on whose
\* weight is not positive (0 if none), and the total weight.
RECURSIVE FirstBadWeight(_, _)
FirstBadWeight(allocations, k) ==
    IF k > Len(allocations) THEN 0
    ELSE IF allocations[k].Weight <= 0 THEN k
    ELSE FirstBadWeight(allocations, k + 1)

RECURSIVE TotalWeight(_, _)
TotalWeight(allocations, k) ==
    IF k > Len(allocations) THEN 0
    ELSE allocations[k].Weight + TotalWeight(allocations, k + 1)

\* Mutant of WeightsOffTarget: the difference is taken without math.Abs.
WeightsOffTarget_NoAbs(totalWeight) == totalWeight - 100000 > 10

\* math.Abs(totalWeight-100) > 0.01, the weights in 1/1000 percent.
WeightsOffTarget(totalWeight) ==
    (IF totalWeight >= 100000 THEN totalWeight - 100000 ELSE 100000 - totalWeight) > 10

\* calculatePortfolioRates, lines 600-614: the error, or "" when the
\* allocations pass.
ValidatePortfolio(allocations) ==
    IF Len(allocations) = 0 THEN "portfolio cannot be empty"
    ELSE IF FirstBadWeight(allocations, 1) # 0 THEN "weight must be positive for symbol"
    ELSE IF WeightsOffTarget(TotalWeight(allocations, 1)) THEN "portfolio weights must sum to 100"
    ELSE ""

\* Mutant of Accumulate: the pessimistic sum takes the median of the index.
Accumulate_MedianTwice(sums, info, a) ==
    [median      |-> sums.median + info.MedianReturn * a.Weight,
     pessimistic |-> sums.pessimistic + info.MedianReturn * a.Weight,
     optimistic  |-> sums.optimistic + info.OptimisticReturn * a.Weight]

\* calculatePortfolioRates, lines 626-629: one allocation added to the sums.
\* weight := a.Weight / 100.0 and the products are carried in 1/10^7 percent.
Accumulate(sums, info, a) ==
    [median      |-> sums.median + info.MedianReturn * a.Weight,
     pessimistic |-> sums.pessimistic + info.PessimisticReturn * a.Weight,
     optimistic  |-> sums.optimistic + info.OptimisticReturn * a.Weight]

\* calculatePortfolioRates, lines 616-637, as a function of the cache: the
\* sums after the allocations from k on, in their order.
RECURSIVE BlendFrom(_, _, _, _)
BlendFrom(c, allocations, k, sums) ==
    IF k > Len(allocations) THEN sums
    ELSE BlendFrom(c, allocations, k + 1,
                   Accumulate(sums, c[allocations[k].Symbol], allocations[k]))

\* calculatePortfolioRates as a function of the cache: None for the error,
\* or the blended rates.
calculatePortfolioRates(c, allocations) ==
    IF ValidatePortfolio(allocations) # "" THEN None
    ELSE IF \E j \in 1..Len(allocations) : allocations[j].Symbol \notin DOMAIN c THEN None
    ELSE Some(BlendFrom(c, allocations, 1, NoSums))

\* calculatePortfolioRates, lines 631-636.
BreakdownEntry(info, a) ==
    [Symbol |-> a.Symbol, Name |-> info.Name, Weight |-> a.Weight,
     MedianReturn |-> round1OfCached(info.MedianReturn)]

\* The indexReturnRates of a single index (lines 205-209), in 1/10^7 percent.
IndexRates(info) ==
    [median      |-> info.MedianReturn * (RateUnit \div 100),
     pessimistic |-> info.PessimisticReturn * (RateUnit \div 100),
     optimistic  |-> info.OptimisticReturn * (RateUnit \div 100)]

\* The rest of the handler once the return source is settled (lines 212-285
\* and 379-443): indexInfo is None or the three rates, breakdown is None or
\* the portfolio breakdown.  The response records the call of the simulator.
FinishSimulation(req, indexInfo, breakdown) ==
    LET annualRate == IF IsSome(indexInfo) THEN Val(indexInfo).median
                      ELSE applyDefault(req.AnnualReturnRate, DefaultAnnualReturnRate * RateUnit)
        contributionGrowth == applyDefault(req.ContributionGrowthRate, 0)
        years == req.mode = "years"
    IN  IF contributionGrowth < 0 \/ contributionGrowth > 2000
        THEN ErrorResponse("contributionGrowthRate must be between 0 and 20")
        ELSE [kind |-> "simulate", status |-> 200, error |-> "",
              sim |-> Some([initial |-> req.InitialInvestment,
                            monthlyBase |-> req.MonthlyContribution,
                            startYear |-> req.today[1],
                            startMonth |-> req.today[2],
                            totalMonths |-> IF years THEN req.Years * 12
                                            ELSE TargetTotalMonths(req),
                            annualRate |-> annualRate,
                            rates |-> indexInfo,
                            contributionGrowth |-> contributionGrowth,
                            endYear |-> IF years THEN req.today[1] + req.Years
                                        ELSE req.TargetYear,
                            endMonth |-> IF years THEN req.today[2]
                                         ELSE TargetEndMonth(req)]),
              HasRange |-> IsSome(indexInfo),
              Portfolio |-> IF IsSome(indexInfo) THEN breakdown ELSE None,
              BlendedMedianReturn |->
                  IF IsSome(indexInfo) /\ IsSome(breakdown)
                  THEN Some(round1OfBlended(Val(indexInfo).median)) ELSE None]

\* Mutant of HasIndexSymbol: the empty string counts as a symbol.
HasIndexSymbol_NoEmptyCheck(req) == IsSome(req.IndexSymbol)

\* A symbol is looked up when the pointer is set and the string is not empty.
HasIndexSymbol(req) == IsSome(req.IndexSymbol) /\ Val(req.IndexSymbol) # ""

\* The handler from the decoded request to its first cache lookup: the
\* validations, then the choice of the return source (lines 187-198 and
\* 354-365) with the checks of calculatePortfolioRates (lines 600-614).  A
\* request with neither a portfolio nor an index symbol is answered at once.
SimulateStart(req) ==
    /\ Serving
    /\ h.pc = "idle"
    /\ LET arrived == [IdleHandler EXCEPT !.req = Some(req), !.arrivedStale = Expired]
           answer(r) == [arrived EXCEPT !.pc = "responded", !.resp = Some(r)]
       IN  h' = IF ValidateRequest(req) # ""
                THEN answer(ErrorResponse(ValidateRequest(req)))
                ELSE IF Len(req.Portfolio) > 0
                THEN IF ValidatePortfolio(req.Portfolio) # ""
                     THEN answer(ErrorResponse(ValidatePortfolio(req.Portfolio)))
                     ELSE [arrived EXCEPT !.pc = "blend"]
                ELSE IF HasIndexSymbol(req)
                THEN [arrived EXCEPT !.pc = "index"]
                ELSE answer(FinishSimulation(req, None, None))
    /\ UNCHANGED <<cache, mutex, lastUpdate, now, calls>>

\* A request of Reqs arrives at a simulate endpoint.
Simulate(Reqs) ==
    /\ h.pc = "idle"
    /\ \E req \in Reqs : SimulateStart(req)

\* Mutant of BlendGetIndex: an allocation whose symbol is unknown is skipped
\* and the blend goes on with the others.
BlendGetIndex_SkipUnknown ==
    /\ h.pc = "blend"
    /\ mutex = None
    /\ LET req == Val(h.req)
           a == req.Portfolio[h.k]
           found == MapLookup(cache, a.Symbol)
           looked == [h EXCEPT !.read = Append(@, found),
                               !.readStale = @ \/ Expired]
           sums == IF IsSome(found) THEN Accumulate(h.sums, Val(found), a) ELSE h.sums
           breakdown == IF IsSome(found)
                        THEN Append(h.breakdown, BreakdownEntry(Val(found), a))
                        ELSE h.breakdown
       IN  h' = IF h.k < Len(req.Portfolio)
                THEN [looked EXCEPT !.k = @ + 1, !.sums = sums, !.breakdown = breakdown]
                ELSE [looked EXCEPT !.sums = sums, !.breakdown = breakdown,
                                    !.pc = "responded",
                                    !.resp = Some(FinishSimulation(
                                        req, Some(sums), Some(breakdown)))]
    /\ UNCHANGED <<cache, mutex, lastUpdate, now, calls>>

\* calculatePortfolioRates, lines 620-637: GetIndex for allocation k under the
\* read lock; an unknown symbol ends the request, the last allocation
\* completes the blend and the handler runs to its response.
BlendGetIndex ==
    /\ h.pc = "blend"
    /\ mutex = None
    /\ LET req == Val(h.req)
           a == req.Portfolio[h.k]
           found == MapLookup(cache, a.Symbol)
           looked == [h EXCEPT !.read = Append(@, found),
                               !.readStale = @ \/ Expired]
       IN  h' = IF ~IsSome(found)
                THEN [looked EXCEPT !.pc = "responded",
                                    !.resp = Some(ErrorResponse("unknown index symbol"))]
                ELSE LET sums == Accumulate(h.sums, Val(found), a)
                         breakdown == Append(h.breakdown, BreakdownEntry(Val(found), a))
                     IN  IF h.k < Len(req.Portfolio)
                         THEN [looked EXCEPT !.k = @ + 1, !.sums = sums,
                                             !.breakdown = breakdown]
                         ELSE [looked EXCEPT !.sums = sums, !.breakdown = breakdown,
                                             !.pc = "responded",
                                             !.resp = Some(FinishSimulation(
                                                 req, Some(sums), Some(breakdown)))]
    /\ UNCHANGED <<cache, mutex, lastUpdate, now, calls>>

\* The single-index source, lines 200-209: GetIndex under the read lock, then
\* the handler runs to its response.
IndexGetIndex ==
    /\ h.pc = "index"
    /\ mutex = None
    /\ LET req == Val(h.req)
           found == MapLookup(cache, Val(req.IndexSymbol))
           looked == [h EXCEPT !.read = Append(@, found), !.readStale = Expired,
                               !.pc = "responded"]
       IN  h' = IF ~IsSome(found)
                THEN [looked EXCEPT !.resp = Some(ErrorResponse("unknown index symbol"))]
                ELSE [looked EXCEPT !.resp = Some(FinishSimulation(
                                        req, Some(IndexRates(Val(found))), None))]
    /\ UNCHANGED <<cache, mutex, lastUpdate, now, calls>>

\* The response leaves; the goroutine ends.
Deliver ==
    /\ h.pc = "responded"
    /\ h' = IdleHandler
    /\ UNCHANGED <<cache, mutex, lastUpdate, now, calls>>

-----------------------------------------------------------------------------

Init ==
    /\ cache = [s \in {} |-> None]
    /\ mutex = None
    /\ lastUpdate = ZeroTime
    /\ now = 0
    /\ calls = [r \in Calls |-> IF r = StartupCall THEN EnteredCall ELSE IdleCall]
    /\ h = IdleHandler

Next ==
    \/ \E r \in Calls : LoadFails(r)
    \/ \E r \in Calls : LoadSucceeds(r)
    \/ \E r \in Calls : Lock(r)
    \/ \E r \in Calls : StoreAndUnlock(r)
    \/ \E r \in Calls : Stamp(r)
    \/ \E r \in Calls : Return(r)
    \/ \E r \in Calls : Exit(r)
    \/ Tick
    \/ GetIndexesRefresh(Refreshers)
    \/ GetIndexesRespond
    \/ Deliver

Spec == Init /\ [][Next]_vars

-----------------------------------------------------------------------------
(* Requests *)

Alloc(sym, w) == [Symbol |-> sym, Weight |-> w]

\* The symbols a request may name: the supported ones and one that is not.
RequestSymbols == Symbols \cup {"XXX"}

BaseYears ==
    [mode |-> "years", InitialInvestment |-> 10000, MonthlyContribution |-> 500,
     Years |-> 1, TargetYear |-> 0, TargetMonth |-> None, Portfolio |-> <<>>,
     IndexSymbol |-> None, AnnualReturnRate |-> None,
     ContributionGrowthRate |-> None, today |-> <<2025, 6>>]

BaseTarget ==
    [BaseYears EXCEPT !.mode = "target", !.TargetYear = 2026, !.TargetMonth = Some(6)]

-----------------------------------------------------------------------------
(* The service with one refresh goroutine, the index listing and the          *)
(* simulate handlers.                                                         *)

ServeRefreshers == {1}
ServeCalls == {StartupCall} \cup ServeRefreshers

ServeRequests ==
    {[b EXCEPT !.Portfolio = p, !.IndexSymbol = x] :
        b \in {BaseYears},
        p \in {<<>>, <<Alloc("SPY", 60000), Alloc("QQQ", 40000)>>},
        x \in {None, Some("EFA")}}

NextServe ==
    \/ \E r \in ServeCalls : LoadFails(r)
    \/ \E r \in ServeCalls : LoadSucceeds(r)
    \/ \E r \in ServeCalls : Lock(r)
    \/ \E r \in ServeCalls : StoreAndUnlock(r)
    \/ \E r \in ServeCalls : Stamp(r)
    \/ \E r \in ServeCalls : Return(r)
    \/ \E r \in ServeCalls : Exit(r)
    \/ Tick
    \/ GetIndexesRefresh(ServeRefreshers)
    \/ GetIndexesRespond
    \/ Simulate(ServeRequests)
    \/ BlendGetIndex
    \/ IndexGetIndex
    \/ Deliver

SpecServe == Init /\ [][NextServe]_vars

-----------------------------------------------------------------------------
(* The simulate handlers over a cache at rest, for every request of           *)
(* SimRequests.                                                               *)

\* The cache after a startup at time 0 that loaded exactly the symbols of S.
CacheAfterStartup(S) ==
    [s \in S |-> Val(CalculateWithFallback(HistoricalData(s, 0, 25)))]

SimCaches == {CacheAfterStartup(S) : S \in {Symbols, {"SPY", "EFA"}, {"QQQ"}}}

\* Weights in 1/1000 percent.  No total is exactly 0.01 from 100: no float64
\* total is.
WeightsOne == {0 - 1000, 0, 99980, 99989, 99991, 99995, 100000, 100009, 100011, 100020}
WeightsTwo == {0 - 1000, 0, 40000, 59980, 59989, 59995, 60000, 60009, 60020}
WeightsThree == {20000, 30000, 50000}

Portfolios ==
    {<<>>}
    \cup {<<Alloc(s, w)>> : s \in RequestSymbols, w \in WeightsOne}
    \cup {<<Alloc(s1, w1), Alloc(s2, w2)>> :
            s1 \in RequestSymbols, s2 \in RequestSymbols,
            w1 \in WeightsTwo, w2 \in WeightsTwo}
    \cup {<<Alloc(s1, w1), Alloc(s2, w2), Alloc(s3, w3)>> :
            s1 \in RequestSymbols, s2 \in RequestSymbols, s3 \in RequestSymbols,
            w1 \in WeightsThree, w2 \in WeightsThree, w3 \in WeightsThree}

BlendRequests == {[BaseYears EXCEPT !.Portfolio = p] : p \in Portfolios}

SourceRequests ==
    {[b EXCEPT !.Portfolio = p, !.IndexSymbol = x, !.AnnualReturnRate = a,
               !.ContributionGrowthRate = g] :
        b \in {BaseYears, BaseTarget},
        p \in {<<>>, <<Alloc("SPY", 60000), Alloc("QQQ", 40000)>>,
               <<Alloc("EFA", 100000)>>, <<Alloc("SPY", 50000)>>,
               <<Alloc("XXX", 100000)>>},
        x \in {None, Some(""), Some("SPY"), Some("QQQ"), Some("XXX")},
        a \in {None, Some(5 * RateUnit), Some(0 - 150 * RateUnit)},
        g \in {None, Some(2000), Some(2001)}}

ValidationRequests ==
    {[BaseYears EXCEPT !.InitialInvestment = i, !.MonthlyContribution = m, !.Years = y] :
        i \in {0 - 1, 0, 10000}, m \in {0 - 1, 0, 500}, y \in {0, 1, 50, 51}}
    \cup
    {[BaseTarget EXCEPT !.TargetYear = ty, !.TargetMonth = tm, !.today = d] :
        ty \in {2024, 2025, 2026, 2075, 2076},
        tm \in {None, Some(0), Some(1), Some(6), Some(7), Some(12), Some(13)},
        d \in {<<2025, 6>>, <<2025, 12>>}}

SimRequests == BlendRequests \cup SourceRequests \cup ValidationRequests

InitSim ==
    /\ cache \in SimCaches
    /\ mutex = None
    /\ lastUpdate = 0
    /\ now = 0
    /\ calls = [r \in Calls |-> IF r = StartupCall
                                THEN [IdleCall EXCEPT !.pc = "done"] ELSE IdleCall]
    /\ h = IdleHandler

NextSim ==
    \/ Simulate(SimRequests)
    \/ BlendGetIndex
    \/ IndexGetIndex
    \/ Deliver

SpecSim == InitSim /\ [][NextSim]_vars

-----------------------------------------------------------------------------
(* Properties of the cache *)

\* The symbols whose load failed so far in the call c of Initialize.
FailedIn(c) ==
    {DefaultSupportedIndexes[j] : j \in 1..(c.i - 1)} \ c.loaded

\* Every statistics record a calculation can produce.
WholeRecords ==
    {Val(CalculateWithFallback(HistoricalData(s, t, y))) :
        s \in Symbols, t \in 0..MaxClock, y \in {15, 25}}

\* The records the request in progress obtained from GetIndex / GetAllIndexes.
ReadRecords ==
    IF h.req = None
    THEN UNION {h.read[j] : j \in 1..Len(h.read)}
    ELSE {Val(h.read[j]) : j \in {x \in 1..Len(h.read) : IsSome(h.read[x])}}

\* C1: a call of Initialize in which the load of a symbol failed never removes
\* or alters the record cached for that symbol: in the step in which the load
\* fails and in every later step of that call, the record of the symbol stays
\* the one it was, whatever the call does for the other symbols.
C1_FailedLoadKeepsRecord ==
    [][\A r \in Calls : \A s \in DOMAIN cache :
          (calls'[r] # calls[r] /\ s \in FailedIn(calls'[r]))
              => (s \in DOMAIN cache' /\ cache'[s] = cache[s])]_vars

\* C1 witness: a refresh has returned after the load of a symbol failed that
\* had a cached record, and it loaded another symbol.
C1_Witness ==
    \E r \in Refreshers :
        /\ calls[r].pc = "returned"
        /\ FailedIn(calls[r]) \cap DOMAIN cache # {}
        /\ calls[r].loaded # {}

\* C2: every record a reader obtained, by GetIndex or in the list of
\* GetAllIndexes, is one whole record of a single calculation for its symbol
\* (median, pessimistic, optimistic, standard deviation and window length all
\* of that calculation), and so is every record published in the cache.
C2_ReadersSeeWholeRecords ==
    /\ \A rec \in ReadRecords : rec \in WholeRecords
    /\ \A s \in DOMAIN cache : cache[s] \in WholeRecords /\ cache[s].Symbol = s

\* C2 witness: a reader got a record while a refresh was running that had
\* already replaced that record, the cache holding records of two loads.
C2_Witness ==
    /\ h.pc \in {"blend", "responded"}
    /\ \E r \in Refreshers :
         /\ calls[r].pc \in {"loop", "lock", "locked"}
         /\ \E rec \in ReadRecords :
              rec.Symbol \in calls[r].loaded /\ rec = cache[rec.Symbol]
         /\ \E s \in DOMAIN cache : s \notin calls[r].loaded /\ s \notin FailedIn(calls[r])

\* C3: a call of Initialize that returns has attempted every supported symbol,
\* and it returns the error exactly when the call itself loaded no symbol.
C3_ErrorIffCallLoadedNothing ==
    \A r \in Calls :
        calls[r].pc = "returned" =>
            /\ calls[r].i = NumIndexes + 1
            /\ (calls[r].result = "err") <=> (calls[r].loaded = {})

\* C4: the step in which handleGetIndexes calls RefreshIfNeeded performs no
\* fetch and no write: the cache, the timestamp and the lock are unchanged; it
\* starts exactly one call of Initialize, still before its first fetch, when
\* the cache age has reached the TTL, and starts nothing when the age is below.
C4_RefreshIfNeededNonBlocking ==
    [][(h.pc = "idle" /\ h'.pc = "getAll") =>
          /\ cache' = cache /\ lastUpdate' = lastUpdate /\ mutex' = mutex
          /\ IF now - lastUpdate >= cacheTTL
             THEN \E r \in Refreshers :
                    /\ calls[r].pc = "idle"
                    /\ calls' = [calls EXCEPT ![r] = EnteredCall]
             ELSE calls' = calls]_vars

\* C4 witness: RefreshIfNeeded has just started a reload at an age of exactly
\* the TTL, and the reload has not fetched yet.
C4_Witness ==
    /\ h.pc = "getAll" /\ h.spawned
    /\ now - lastUpdate = cacheTTL
    /\ \E r \in Refreshers : calls[r] = EnteredCall

\* C5: every request that obtained a record from the cache while the cache
\* age exceeded the TTL (on arrival and at the read), by the listing or by a
\* lookup of a simulation, has started a background refresh.
C5_StaleReadTriggersRefresh ==
    (h.pc = "responded" /\ ReadRecords # {} /\ h.arrivedStale /\ h.readStale)
        => h.spawned

\* C6: a reload in which no symbol was loaded does not advance lastUpdate.
C6_FailedReloadKeepsTimestamp ==
    [][\A r \in Refreshers :
          (calls[r].pc = "loop" /\ calls'[r].pc = "check" /\ calls[r].loaded = {})
              => lastUpdate' = lastUpdate]_vars

-----------------------------------------------------------------------------
(* Properties of the simulate handlers *)

\* The request in progress and its response.
Request == Val(h.req)
Response == Val(h.resp)

\* A simulate request has been answered.
Answered == h.pc = "responded" /\ IsSome(h.req)

\* The sum of the weights of a portfolio, in 1/1000 percent.
WeightSum(p) ==
    IF Len(p) = 0 THEN 0
    ELSE IF Len(p) = 1 THEN p[1].Weight
    ELSE IF Len(p) = 2 THEN p[1].Weight + p[2].Weight
    ELSE p[1].Weight + p[2].Weight + p[3].Weight

\* The weights of the portfolio are not all positive, or their sum is more
\* than 0.01 away from 100.
BadWeights(p) ==
    \/ \E j \in 1..Len(p) : p[j].Weight <= 0
    \/ WeightSum(p) - 100000 > 10
    \/ 100000 - WeightSum(p) > 10

\* C7: calculatePortfolioRates returns the error and no rates for the empty
\* list, for a weight that is not positive and for weights whose sum is more
\* than 0.01 away from 100: the request is answered 400 with no simulation and
\* before any lookup; weights within 0.01 of 100 pass to the lookups.
C7_BlendRejectsBadWeights ==
    /\ calculatePortfolioRates(cache, <<>>) = None
    /\ ValidatePortfolio(<<>>) # ""
    /\ (IsSome(h.req) /\ ValidateRequest(Request) = "" /\ Len(Request.Portfolio) > 0) =>
          /\ BadWeights(Request.Portfolio) =>
                /\ calculatePortfolioRates(cache, Request.Portfolio) = None
                /\ h.pc = "responded"
                /\ h.read = <<>>
                /\ Response.status = 400
                /\ Response.sim = None
                /\ Response.Portfolio = None
          /\ ~BadWeights(Request.Portfolio) =>
                /\ ValidatePortfolio(Request.Portfolio) = ""
                /\ h.pc = "blend" \/ (h.pc = "responded" /\ Len(h.read) > 0)

\* C7 witness: a portfolio of one allocation of weight 99.995 was accepted and
\* the simulation ran.
C7_Witness ==
    /\ Answered
    /\ Len(Request.Portfolio) = 1
    /\ Request.Portfolio[1].Weight = 99995
    /\ Response.status = 200
    /\ IsSome(Response.sim)

\* C8: a request whose portfolio names a symbol that is not in the cache is
\* answered 400 with no simulation, no rates, no breakdown and no blended
\* median, however many of its other allocations were found.
C8_UnknownSymbolFailsBlend ==
    (/\ Answered
     /\ ValidateRequest(Request) = ""
     /\ \E j \in 1..Len(Request.Portfolio) :
            Request.Portfolio[j].Symbol \notin DOMAIN cache) =>
        /\ Response.status = 400
        /\ Response.sim = None
        /\ Response.HasRange = FALSE
        /\ Response.Portfolio = None
        /\ Response.BlendedMedianReturn = None
        /\ calculatePortfolioRates(cache, Request.Portfolio) = None

\* C8 witness: the third allocation was unknown after two were found.
C8_Witness ==
    /\ Answered
    /\ Len(h.read) = 3
    /\ IsSome(h.read[1]) /\ IsSome(h.read[2]) /\ h.read[3] = None
    /\ Response.status = 400

\* The weighted sum of one rate of the cached records, in 1/10^7 percent.
WeightedMedian(p) ==
    IF Len(p) = 1 THEN p[1].Weight * cache[p[1].Symbol].MedianReturn
    ELSE IF Len(p) = 2 THEN p[1].Weight * cache[p[1].Symbol].MedianReturn
                            + p[2].Weight * cache[p[2].Symbol].MedianReturn
    ELSE p[1].Weight * cache[p[1].Symbol].MedianReturn
         + p[2].Weight * cache[p[2].Symbol].MedianReturn
         + p[3].Weight * cache[p[3].Symbol].MedianReturn

WeightedPessimistic(p) ==
    IF Len(p) = 1 THEN p[1].Weight * cache[p[1].Symbol].PessimisticReturn
    ELSE IF Len(p) = 2 THEN p[1].Weight * cache[p[1].Symbol].PessimisticReturn
                            + p[2].Weight * cache[p[2].Symbol].PessimisticReturn
    ELSE p[1].Weight * cache[p[1].Symbol].PessimisticReturn
         + p[2].Weight * cache[p[2].Symbol].PessimisticReturn
         + p[3].Weight * cache[p[3].Symbol].PessimisticReturn

WeightedOptimistic(p) ==
    IF Len(p) = 1 THEN p[1].Weight * cache[p[1].Symbol].OptimisticReturn
    ELSE IF Len(p) = 2 THEN p[1].Weight * cache[p[1].Symbol].OptimisticReturn
                            + p[2].Weight * cache[p[2].Symbol].OptimisticReturn
    ELSE p[1].Weight * cache[p[1].Symbol].OptimisticReturn
         + p[2].Weight * cache[p[2].Symbol].OptimisticReturn
         + p[3].Weight * cache[p[3].Symbol].OptimisticReturn

\* The orders of n allocations, and a portfolio in another order.
Orders(n) == {f \in [1..n -> 1..n] : \A i, j \in 1..n : f[i] = f[j] => i = j}
Reordered(p, f) == [j \in 1..Len(p) |-> p[f[j]]]

\* C9: the rates a simulation ran with for a valid portfolio are the sums over
\* the allocations of weight/100 times the cached rate of the symbol, and the
\* blend of the same allocations in any other order gives the same rates.
C9_BlendIsWeightedSum ==
    (Answered /\ Len(Request.Portfolio) > 0 /\ Response.status = 200) =>
        LET p == Request.Portfolio
            rates == Val(Val(Response.sim).rates)
        IN  /\ rates.median = WeightedMedian(p)
            /\ rates.pessimistic = WeightedPessimistic(p)
            /\ rates.optimistic = WeightedOptimistic(p)
            /\ \A f \in Orders(Len(p)) :
                   calculatePortfolioRates(cache, Reordered(p, f)) = Some(rates)

\* C9 witness: a simulation ran with the blend of three different symbols
\* with three different weights.
C9_Witness ==
    /\ Answered
    /\ Response.status = 200
    /\ Len(Request.Portfolio) = 3
    /\ Cardinality({Request.Portfolio[j].Symbol : j \in 1..3}) = 3
    /\ Cardinality({Request.Portfolio[j].Weight : j \in 1..3}) = 3
    /\ Cardinality({cache[s].MedianReturn : s \in DOMAIN cache}) = 3

\* C10: with a non-empty portfolio the simulation runs with the blended rates;
\* otherwise with a non-empty indexSymbol it runs with the cached rates of that
\* symbol; otherwise with the annualReturnRate given; otherwise with 7.  The
\* sources of lower precedence have no part in the rates, and the response
\* has range data exactly when the portfolio or the indexSymbol was used.
C10_SourcePrecedence ==
    (/\ Answered
     /\ ValidateRequest(Request) = ""
     /\ applyDefault(Request.ContributionGrowthRate, 0) \in 0..2000) =>
        LET p == Request.Portfolio
            x == Request.IndexSymbol
            sim == Val(Response.sim)
        IN  IF Len(p) > 0
            THEN Response.status = 200 =>
                   /\ sim.rates = calculatePortfolioRates(cache, p)
                   /\ sim.annualRate = WeightedMedian(p)
                   /\ Response.HasRange
            ELSE IF x # None /\ Val(x) # ""
            THEN /\ Response.status = 200 <=> Val(x) \in DOMAIN cache
                 /\ Response.status = 200 =>
                       /\ sim.rates = Some(IndexRates(cache[Val(x)]))
                       /\ sim.annualRate = cache[Val(x)].MedianReturn * (RateUnit \div 100)
                       /\ Response.HasRange
            ELSE /\ Response.status = 200
                 /\ sim.rates = None
                 /\ ~Response.HasRange
                 /\ sim.annualRate = IF Request.AnnualReturnRate # None
                                      THEN Val(Request.AnnualReturnRate)
                                      ELSE 7 * RateUnit

\* C10 witness: a request with a portfolio, an indexSymbol of other rates and
\* an annualReturnRate ran with the blended rates.
C10_Witness ==
    /\ Answered
    /\ Response.status = 200
    /\ Len(Request.Portfolio) = 2
    /\ Request.IndexSymbol = Some("QQQ")
    /\ Request.AnnualReturnRate # None
    /\ Val(Response.sim).annualRate = WeightedMedian(Request.Portfolio)
    /\ Val(Response.sim).annualRate # IndexRates(cache["QQQ"]).median
    /\ Val(Response.sim).annualRate # Val(Request.AnnualReturnRate)

\* The months from the request's today to its target date, December when no
\* target month is given.
MonthsToTarget(req) ==
    (req.TargetYear * 12 + (IF req.TargetMonth = None THEN 12 ELSE Val(req.TargetMonth)))
        - (req.today[1] * 12 + req.today[2])

\* The request is in the domain of the simulator.
ValidInputs(req) ==
    /\ req.InitialInvestment >= 0
    /\ req.MonthlyContribution >= 0
    /\ IF req.mode = "years"
       THEN req.Years \in 1..50
       ELSE /\ req.TargetMonth = None \/ Val(req.TargetMonth) \in 1..12
            /\ MonthsToTarget(req) \in 1..600
    /\ req.ContributionGrowthRate = None \/ Val(req.ContributionGrowthRate) \in 0..2000

C11_GrowthBoundaryReached ==
    /\ Answered
    /\ Request.ContributionGrowthRate = Some(2000)
    /\ Response.status = 200

-----------------------------------------------------------------------------
(* handler: simulateMonthly, simulateWithRange, buildSummary                  *)
(*                                                                            *)
(* Amounts inside the simulator are in 1/10000 of the currency unit, the      *)
(* amounts of a projection (after round2) in 1/100.  Annual rates are in      *)
(* 1/100 percent, monthly rates in 1/10^8.                                    *)

Money == 10000

\* One, as a monthly factor.
Unity == 100 * 1000 * 1000

\* <<quotient, remainder>> of x * b by c, for 0 <= x < c and b >= 0, three
\* bits of b at a time.
RECURSIVE MulDivQR(_, _, _)
MulDivQR(x, b, c) ==
    IF x = 0 \/ b = 0 THEN <<0, 0>>
    ELSE LET high == MulDivQR(x, b \div 8, c)
             r == 8 * high[2] + (b % 8) * x
         IN  <<8 * high[1] + r \div c, r % c>>

\* x * b / c rounded to the nearest integer (halves upwards), x, b >= 0.
MulDiv(x, b, c) ==
    LET qr == MulDivQR(x % c, b, c)
    IN  (x \div c) * b + qr[1] + (IF 2 * qr[2] >= c THEN 1 ELSE 0)

\* The product of an amount and a monthly rate of either sign.
TimesRate(amount, rate) ==
    IF rate >= 0 THEN MulDiv(amount, rate, Unity) ELSE 0 - MulDiv(amount, 0 - rate, Unity)

\* The 12th power of a factor f (1/10^8).
Pow12(f) ==
    LET f2 == MulDiv(f, f, Unity)
        f4 == MulDiv(f2, f2, Unity)
        f8 == MulDiv(f4, f4, Unity)
    IN  MulDiv(f8, f4, Unity)

\* The largest factor in lo..hi whose 12th power does not exceed target.
RECURSIVE Root12(_, _, _)
Root12(lo, hi, target) ==
    IF lo = hi THEN lo
    ELSE LET mid == (lo + hi + 1) \div 2
         IN  IF Pow12(mid) <= target
             THEN Root12(mid, hi, target)
             ELSE Root12(lo, mid - 1, target)

\* math.Pow(1+annual/100, 1.0/12.0) - 1 for an annual rate in 1/100 percent
\* between -50 and 100 percent.
MonthlyRateOf(annual) ==
    Root12(Unity \div 2, Unity + Unity \div 16, Unity + annual * (Unity \div 10000)) - Unity

\* round2 of an amount of the simulator: to 1/100, halves away from zero.
round2(val) == RoundDiv(val, Money \div 100)

\* Mutant of NextMonth: the year turns when the month reaches 12.
NextMonth_WrapsAtTwelve(year, month) ==
    IF month + 1 >= 12 THEN <<year + 1, 1>> ELSE <<year, month + 1>>

\* simulateMonthly, lines 476-480: advance to the next month.
NextMonth(year, month) ==
    IF month + 1 > 12 THEN <<year + 1, 1>> ELSE <<year, month + 1>>

\* Mutant of EnterRun: the total contributed starts at zero, without the
\* initial investment.
EnterRun_ContributedFromZero(initial, monthlyBase, startYear, startMonth, annualRate, contributionGrowth) ==
    [i |-> 0,
     monthlyReturnRate |-> MonthlyRateOf(annualRate),
     monthlyContributionGrowth |-> MonthlyRateOf(contributionGrowth),
     balance |-> initial,
     totalContributed |-> 0,
     currentContribution |-> monthlyBase,
     currentYear |-> startYear,
     currentMonth |-> startMonth,
     projections |-> <<>>]

\* simulateMonthly, lines 463-472: the locals before the loop.
EnterRun(initial, monthlyBase, startYear, startMonth, annualRate, contributionGrowth) ==
    [i |-> 0,
     monthlyReturnRate |-> MonthlyRateOf(annualRate),
     monthlyContributionGrowth |-> MonthlyRateOf(contributionGrowth),
     balance |-> initial,
     totalContributed |-> initial,
     currentContribution |-> monthlyBase,
     currentYear |-> startYear,
     currentMonth |-> startMonth,
     projections |-> <<>>]

\* Mutant of StepMonth: the contribution is added before the return is
\* applied, so that it earns the return of its own month.
StepMonth_ContributionFirst(run) ==
    LET ym == NextMonth(run.currentYear, run.currentMonth)
        paid == run.balance + run.currentContribution
        balance == paid + TimesRate(paid, run.monthlyReturnRate)
        totalContributed == run.totalContributed + run.currentContribution
    IN  [run EXCEPT
            !.i = @ + 1,
            !.currentYear = ym[1],
            !.currentMonth = ym[2],
            !.balance = balance,
            !.totalContributed = totalContributed,
            !.projections = Append(@,
                [Year |-> ym[1], Month |-> ym[2],
                 MonthlyContribution |-> round2(run.currentContribution),
                 TotalContributed |-> round2(totalContributed),
                 PortfolioValue |-> round2(balance),
                 PessimisticValue |-> None, OptimisticValue |-> None]),
            !.currentContribution = @ + TimesRate(@, run.monthlyContributionGrowth)]

\* Mutant of StepMonth: the projection is recorded before the contribution of
\* the month is added to the balance.
StepMonth_RecordsBeforeContribution(run) ==
    LET ym == NextMonth(run.currentYear, run.currentMonth)
        grown == run.balance + TimesRate(run.balance, run.monthlyReturnRate)
        totalContributed == run.totalContributed + run.currentContribution
    IN  [run EXCEPT
            !.i = @ + 1,
            !.currentYear = ym[1],
            !.currentMonth = ym[2],
            !.balance = grown + run.currentContribution,
            !.totalContributed = totalContributed,
            !.projections = Append(@,
                [Year |-> ym[1], Month |-> ym[2],
                 MonthlyContribution |-> round2(run.currentContribution),
                 TotalContributed |-> round2(totalContributed),
                 PortfolioValue |-> round2(grown),
                 PessimisticValue |-> None, OptimisticValue |-> None]),
            !.currentContribution = @ + TimesRate(@, run.monthlyContributionGrowth)]

\* simulateMonthly, lines 474-499: one iteration of the loop.
StepMonth(run) ==
    LET ym == NextMonth(run.currentYear, run.currentMonth)
        balance == run.balance + TimesRate(run.balance, run.monthlyReturnRate)
                       + run.currentContribution
        totalContributed == run.totalContributed + run.currentContribution
    IN  [run EXCEPT
            !.i = @ + 1,
            !.currentYear = ym[1],
            !.currentMonth = ym[2],
            !.balance = balance,
            !.totalContributed = totalContributed,
            !.projections = Append(@,
                [Year |-> ym[1], Month |-> ym[2],
                 MonthlyContribution |-> round2(run.currentContribution),
                 TotalContributed |-> round2(totalContributed),
                 PortfolioValue |-> round2(balance),
                 PessimisticValue |-> None, OptimisticValue |-> None]),
            !.currentContribution = @ + TimesRate(@, run.monthlyContributionGrowth)]

\* simulateMonthly, lines 474-501: the loop from a run on to its end.
RECURSIVE RunToEnd(_, _)
RunToEnd(run, totalMonths) ==
    IF run.i >= totalMonths THEN run ELSE RunToEnd(StepMonth(run), totalMonths)

\* simulateMonthly as a function of its arguments.
simulateMonthly(initial, monthlyBase, startYear, startMonth, totalMonths, annualRate, contributionGrowth) ==
    RunToEnd(EnterRun(initial, monthlyBase, startYear, startMonth,
                      annualRate, contributionGrowth), totalMonths).projections

\* buildContributionMilestones, lines 550-560: the loop over the projections
\* from k on, with the milestones and the years added so far.
RECURSIVE MilestonesFrom(_, _, _, _, _, _)
MilestonesFrom(projections, k, startYear, milestoneYears, addedYears, milestones) ==
    IF k > Len(projections) THEN <<milestones, addedYears>>
    ELSE LET p == projections[k]
         IN  IF p.Year \in milestoneYears /\ p.Year \notin addedYears /\ p.Month = 1
             THEN MilestonesFrom(projections, k + 1, startYear, milestoneYears,
                                 addedYears \cup {p.Year},
                                 Append(milestones,
                                        [Year |-> p.Year,
                                         YearsFromNow |-> p.Year - startYear,
                                         MonthlyContribution |-> p.MonthlyContribution]))
             ELSE MilestonesFrom(projections, k + 1, startYear, milestoneYears,
                                 addedYears, milestones)

\* Mutant of buildContributionMilestones: the final projection is appended
\* whether or not its year has an entry.
buildContributionMilestones_AlwaysFinal(projections, startYear) ==
    LET finalProj == projections[Len(projections)]
        totalYears == finalProj.Year - startYear
        milestoneYears == {startYear + 5 * n : n \in 1..(totalYears \div 5)}
                              \cup {finalProj.Year}
        looped == MilestonesFrom(projections, 1, startYear, milestoneYears, {}, <<>>)
    IN  Append(looped[1], [Year |-> finalProj.Year,
                           YearsFromNow |-> finalProj.Year - startYear,
                           MonthlyContribution |-> finalProj.MonthlyContribution])

\* buildContributionMilestones
buildContributionMilestones(projections, startYear) ==
    LET finalProj == projections[Len(projections)]
        totalYears == finalProj.Year - startYear
        milestoneYears == {startYear + 5 * n : n \in 1..(totalYears \div 5)}
                              \cup {finalProj.Year}
        looped == MilestonesFrom(projections, 1, startYear, milestoneYears, {}, <<>>)
    IN  IF finalProj.Year \notin looped[2]
        THEN Append(looped[1], [Year |-> finalProj.Year,
                                YearsFromNow |-> finalProj.Year - startYear,
                                MonthlyContribution |-> finalProj.MonthlyContribution])
        ELSE looped[1]

\* round1((gain / totalContributed) * 100), in 1/10 percent, for
\* totalContributed > 0.
PercentOf(gain, totalContributed) ==
    IF gain >= 0 THEN MulDiv(gain, 1000, totalContributed)
    ELSE 0 - MulDiv(0 - gain, 1000, totalContributed)

\* buildSummary
buildSummary(projections, totalMonths, endYear, endMonth, startYear) ==
    LET finalProjection == projections[Len(projections)]
        totalContributed == finalProjection.TotalContributed
        totalGain == finalProjection.PortfolioValue - totalContributed
    IN  [TargetDate |-> <<endMonth, endYear>>,
         FinalValue |-> finalProjection.PortfolioValue,
         TotalContributed |-> totalContributed,
         TotalGain |-> totalGain,
         PercentageGain |-> IF totalContributed > 0
                            THEN PercentOf(totalGain, totalContributed) ELSE 0,
         TotalMonths |-> totalMonths,
         FinalMonthlyContribution |-> finalProjection.MonthlyContribution,
         ContributionMilestones |-> buildContributionMilestones(projections, startYear),
         HasRange |-> FALSE,
         PessimisticValue |-> None, OptimisticValue |-> None,
         PessimisticGain |-> None, OptimisticGain |-> None,
         PessimisticPercent |-> None, OptimisticPercent |-> None]

\* Mutant of MergeProjections: the pessimistic and the optimistic run are
\* taken for each other.
MergeProjections_Swapped(medianProj, pessimisticProj, optimisticProj) ==
    [i \in 1..Len(medianProj) |->
        [Year |-> medianProj[i].Year,
         Month |-> medianProj[i].Month,
         MonthlyContribution |-> medianProj[i].MonthlyContribution,
         TotalContributed |-> medianProj[i].TotalContributed,
         PortfolioValue |-> medianProj[i].PortfolioValue,
         PessimisticValue |-> Some(optimisticProj[i].PortfolioValue),
         OptimisticValue |-> Some(pessimisticProj[i].PortfolioValue)]]

\* simulateWithRange, lines 663-677: the three lists merged index by index.
MergeProjections(medianProj, pessimisticProj, optimisticProj) ==
    [i \in 1..Len(medianProj) |->
        [Year |-> medianProj[i].Year,
         Month |-> medianProj[i].Month,
         MonthlyContribution |-> medianProj[i].MonthlyContribution,
         TotalContributed |-> medianProj[i].TotalContributed,
         PortfolioValue |-> medianProj[i].PortfolioValue,
         PessimisticValue |-> Some(pessimisticProj[i].PortfolioValue),
         OptimisticValue |-> Some(optimisticProj[i].PortfolioValue)]]

\* simulateWithRange, lines 679-707: the summary with the range values.
RangeSummary(projections, pessimisticProj, optimisticProj, totalMonths, endYear, endMonth, startYear) ==
    LET summary == buildSummary(projections, totalMonths, endYear, endMonth, startYear)
        finalPess == pessimisticProj[Len(pessimisticProj)]
        finalOpt == optimisticProj[Len(optimisticProj)]
        totalContributed == summary.TotalContributed
        pessGain == finalPess.PortfolioValue - totalContributed
        optGain == finalOpt.PortfolioValue - totalContributed
    IN  [summary EXCEPT
            !.HasRange = TRUE,
            !.PessimisticValue = Some(finalPess.PortfolioValue),
            !.OptimisticValue = Some(finalOpt.PortfolioValue),
            !.PessimisticGain = Some(pessGain),
            !.OptimisticGain = Some(optGain),
            !.PessimisticPercent = Some(IF totalContributed > 0
                                        THEN PercentOf(pessGain, totalContributed) ELSE 0),
            !.OptimisticPercent = Some(IF totalContributed > 0
                                       THEN PercentOf(optGain, totalContributed) ELSE 0)]

-----------------------------------------------------------------------------
(* The simulator as the steps of the handler goroutine.  h holds the          *)
(* arguments of the call, the locals of each run of simulateMonthly and the   *)
(* results.  simulateWithRange calls the three runs one after the other; the  *)
(* runs are scheduled here in every order and interleaving, the order of the  *)
(* code among them.                                                           *)

RunNames == {"median", "pessimistic", "optimistic"}

\* The date totalMonths after the start: the endYear, endMonth the handlers
\* pass on.
MonthsLater(ym, n) ==
    <<(ym[1] * 12 + (ym[2] - 1) + n) \div 12, ((ym[1] * 12 + (ym[2] - 1) + n) % 12) + 1>>

SimArgs(initial, monthlyBase, start, totalMonths, rates, contributionGrowth) ==
    [initial |-> initial, monthlyBase |-> monthlyBase,
     startYear |-> start[1], startMonth |-> start[2],
     totalMonths |-> totalMonths, rates |-> rates,
     contributionGrowth |-> contributionGrowth,
     endYear |-> MonthsLater(start, totalMonths)[1],
     endMonth |-> MonthsLater(start, totalMonths)[2]]

\* The goroutine at the call of simulateMonthly (a single rate) or of
\* simulateWithRange (three rates): every run before its loop.
EnterSimulation(a) ==
    [pc |-> "simulate", args |-> a,
     runs |-> [x \in DOMAIN a.rates |->
                  EnterRun(a.initial, a.monthlyBase, a.startYear, a.startMonth,
                           a.rates[x], a.contributionGrowth)],
     projections |-> <<>>, summary |-> None]

\* Mutant of SimulateMonth: the contribution is kept in one variable shared by
\* the runs instead of a local of each.
SimulateMonth_SharedContribution(x) ==
    /\ h.pc = "simulate"
    /\ x \in DOMAIN h.runs
    /\ h.runs[x].i < h.args.totalMonths
    /\ LET stepped == StepMonth([h.runs[x] EXCEPT
                          !.currentContribution = h.runs["median"].currentContribution])
       IN  h' = [h EXCEPT !.runs[x] = stepped,
                          !.runs["median"].currentContribution = stepped.currentContribution]
    /\ UNCHANGED <<cache, mutex, lastUpdate, now, calls>>

\* One iteration of the loop of simulateMonthly in the run x.
SimulateMonth(x) ==
    /\ h.pc = "simulate"
    /\ x \in DOMAIN h.runs
    /\ h.runs[x].i < h.args.totalMonths
    /\ h' = [h EXCEPT !.runs[x] = StepMonth(@)]
    /\ UNCHANGED <<cache, mutex, lastUpdate, now, calls>>

\* The handler after simulateMonthly returned (lines 261-269): the summary.
Summarize ==
    /\ h.pc = "simulate"
    /\ DOMAIN h.runs = {"median"}
    /\ h.runs["median"].i = h.args.totalMonths
    /\ LET projections == h.runs["median"].projections
       IN  h' = [h EXCEPT !.pc = "simulated",
                          !.projections = projections,
                          !.summary = Some(buildSummary(projections, h.args.totalMonths,
                                               h.args.endYear, h.args.endMonth,
                                               h.args.startYear))]
    /\ UNCHANGED <<cache, mutex, lastUpdate, now, calls>>

\* simulateWithRange after its three runs (lines 662-709): merge and summary.
MergeAndSummarize ==
    /\ h.pc = "simulate"
    /\ DOMAIN h.runs = RunNames
    /\ \A x \in RunNames : h.runs[x].i = h.args.totalMonths
    /\ LET projections == MergeProjections(h.runs["median"].projections,
                                           h.runs["pessimistic"].projections,
                                           h.runs["optimistic"].projections)
       IN  h' = [h EXCEPT !.pc = "simulated",
                          !.projections = projections,
                          !.summary = Some(RangeSummary(projections,
                                               h.runs["pessimistic"].projections,
                                               h.runs["optimistic"].projections,
                                               h.args.totalMonths, h.args.endYear,
                                               h.args.endMonth, h.args.startYear))]
    /\ UNCHANGED <<cache, mutex, lastUpdate, now, calls>>

\* Bounds of the calls checked.
LongMonths == 66
RangeMonths == 24
ShortRangeMonths == 3

\* Calls of simulateMonthly: amounts of whole and of fractional cents, starts
\* before and at the end of a year, periods within a year, across one and
\* beyond five years.
SingleCalls ==
    {SimArgs(initial, monthlyBase, start, totalMonths, [median |-> rate], growth) :
        initial \in {0, 15, 10000 * Money},
        monthlyBase \in {0, 40, 500 * Money},
        start \in {<<2025, 1>>, <<2025, 6>>, <<2025, 12>>},
        totalMonths \in {1, 7, 12, 13, LongMonths},
        rate \in {0, 700},
        growth \in {0, 300, 2000}}

RateTriples ==
    {[median |-> 800, pessimistic |-> 500, optimistic |-> 1100],
     [median |-> 873, pessimistic |-> 0 - 27, optimistic |-> 1574],
     [median |-> 0, pessimistic |-> 0, optimistic |-> 0]}

\* Calls of simulateWithRange.
RangeCalls ==
    {SimArgs(initial, 500 * Money, <<2025, 6>>, ShortRangeMonths, rates, growth) :
        initial \in {0, 10000 * Money}, rates \in RateTriples, growth \in {0, 300}}
    \cup
    {SimArgs(10000 * Money, 500 * Money, <<2025, 11>>, RangeMonths,
             [median |-> 800, pessimistic |-> 500, optimistic |-> 1100], growth) :
        growth \in {0, 2000}}

InitRun ==
    /\ cache \in {CacheAfterStartup(Symbols)}
    /\ mutex = None
    /\ lastUpdate = 0
    /\ now = 0
    /\ calls = [r \in Calls |-> IF r = StartupCall
                                THEN [IdleCall EXCEPT !.pc = "done"] ELSE IdleCall]
    /\ h \in {EnterSimulation(a) : a \in SingleCalls \cup RangeCalls}

NextRun ==
    \/ \E x \in RunNames : SimulateMonth(x)
    \/ Summarize
    \/ MergeAndSummarize

SpecRun == InitRun /\ [][NextRun]_vars

-----------------------------------------------------------------------------
(* Properties of the simulator *)

\* The simulation has returned its projections and summary.
Simulated == h.pc = "simulated"

\* The month number of a date, counted from year 0.
MonthNumber(year, month) == year * 12 + month

\* C12: a run has as many projections as iterations done, totalMonths at its
\* end; the k-th projection is the k-th calendar month after the start
\* (so each follows the previous one, December followed by January of the
\* next year) and its month is in 1..12; the returned list is the same.
C12_ProjectionsFollowCalendar ==
    /\ \A x \in DOMAIN h.runs :
          LET p == h.runs[x].projections
          IN  /\ Len(p) = h.runs[x].i
              /\ Len(p) <= h.args.totalMonths
              /\ \A k \in 1..Len(p) :
                    /\ p[k].Month \in 1..12
                    /\ MonthNumber(p[k].Year, p[k].Month) =
                          MonthNumber(h.args.startYear, h.args.startMonth) + k
    /\ Simulated =>
          /\ Len(h.projections) = h.args.totalMonths
          /\ \A k \in 1..Len(h.projections) :
                /\ h.projections[k].Month \in 1..12
                /\ MonthNumber(h.projections[k].Year, h.projections[k].Month) =
                      MonthNumber(h.args.startYear, h.args.startMonth) + k

\* C12 witness: 13 months from December 2025 run from January 2026 to
\* January 2027.
C12_Witness ==
    /\ Simulated
    /\ h.args.startMonth = 12
    /\ Len(h.projections) = 13
    /\ h.projections[1].Year = 2026 /\ h.projections[1].Month = 1
    /\ h.projections[12].Year = 2026 /\ h.projections[12].Month = 12
    /\ h.projections[13].Year = 2027 /\ h.projections[13].Month = 1

\* The runs with annual rate 0 of a call with contribution growth 0.
FlatRuns ==
    {x \in DOMAIN h.runs : h.args.rates[x] = 0 /\ h.args.contributionGrowth = 0}

\* C13 as stated: with rate 0 and growth 0 the value of the k-th projection is
\* exactly initial + monthlyBase * k.
C13_FlatValueIsExactSum ==
    \A x \in FlatRuns :
        \A k \in 1..Len(h.runs[x].projections) :
            h.runs[x].projections[k].PortfolioValue * (Money \div 100) =
                h.args.initial + h.args.monthlyBase * k

\* C13 amended: with rate 0 and growth 0 the value of the k-th projection is
\* initial + monthlyBase * k rounded to 2 decimals, which is that sum itself
\* when the sum is a whole number of hundredths.
C13_FlatValueIsRoundedSum ==
    \A x \in FlatRuns :
        \A k \in 1..Len(h.runs[x].projections) :
            LET sum == h.args.initial + h.args.monthlyBase * k
                value == h.runs[x].projections[k].PortfolioValue
            IN  /\ value = (sum + 50) \div 100
                /\ sum % 100 = 0 => value * 100 = sum

\* C13 witness: a flat run of whole amounts has reached its last month with
\* the exact sum, contributions included.
C13_Witness ==
    /\ Simulated
    /\ FlatRuns # {}
    /\ h.args.initial = 10000 * Money /\ h.args.monthlyBase = 500 * Money
    /\ h.args.totalMonths = 13
    /\ h.projections[13].PortfolioValue = 1650000

\* The rates of a call in range mode are in order.
OrderedRates ==
    /\ DOMAIN h.runs = RunNames
    /\ h.args.rates["pessimistic"] <= h.args.rates["median"]
    /\ h.args.rates["median"] <= h.args.rates["optimistic"]

\* C14: the merged list of simulateWithRange has the length of the median run;
\* its i-th element has the year, month, contribution, total contributed and
\* value of the median run's i-th projection and the values of the i-th
\* projections of the pessimistic and optimistic runs; with rates in order,
\* pessimistic value <= value <= optimistic value in every element.
C14_RangeMergesInOrder ==
    (Simulated /\ DOMAIN h.runs = RunNames) =>
        LET med == h.runs["median"].projections
            pess == h.runs["pessimistic"].projections
            opt == h.runs["optimistic"].projections
        IN  /\ Len(h.projections) = Len(med)
            /\ \A i \in 1..Len(h.projections) :
                  LET p == h.projections[i]
                  IN  /\ p.Year = med[i].Year /\ p.Month = med[i].Month
                      /\ p.MonthlyContribution = med[i].MonthlyContribution
                      /\ p.TotalContributed = med[i].TotalContributed
                      /\ p.PortfolioValue = med[i].PortfolioValue
                      /\ p.PessimisticValue = Some(pess[i].PortfolioValue)
                      /\ p.OptimisticValue = Some(opt[i].PortfolioValue)
                      /\ OrderedRates =>
                            /\ Val(p.PessimisticValue) <= p.PortfolioValue
                            /\ p.PortfolioValue <= Val(p.OptimisticValue)

\* C14 witness: the long range call at 5, 8 and 11 percent, the three values apart in
\* the first and in the last month.
C14_Witness ==
    /\ Simulated
    /\ h.args.rates = [median |-> 800, pessimistic |-> 500, optimistic |-> 1100]
    /\ Len(h.projections) = RangeMonths
    /\ \A i \in {1, RangeMonths} :
          /\ Val(h.projections[i].PessimisticValue) < h.projections[i].PortfolioValue
          /\ h.projections[i].PortfolioValue < Val(h.projections[i].OptimisticValue)

\* The last projection returned.
LastProjection == h.projections[Len(h.projections)]

\* The percentage is the gain over the total contributed, in percent, rounded
\* to 1 decimal (gain and total in hundredths, percentage in tenths).
IsPercentOf(percent, gain, totalContributed) ==
    LET off == percent * totalContributed - 1000 * gain
    IN  /\ 2 * off <= totalContributed
        /\ 2 * (0 - off) <= totalContributed

\* C15: the summary's final value and total contributed are those of the last
\* projection, the total gain is their difference, the percentage gain is 0
\* when nothing was contributed and the rounded ratio otherwise, and the total
\* contributed counts the initial investment and every monthly contribution
\* (initial + monthlyBase * totalMonths without growth, at least that with
\* growth). In range mode hasRange is set and the pessimistic and optimistic
\* value and gain come from the last projection of their own run against the
\* same total contributed; in single mode the range fields are absent.
C15_SummaryFromLastProjection ==
    Simulated =>
        LET s == Val(h.summary)
            flat == h.args.initial + h.args.monthlyBase * h.args.totalMonths
        IN  /\ s.FinalValue = LastProjection.PortfolioValue
            /\ s.TotalContributed = LastProjection.TotalContributed
            /\ s.TotalGain = s.FinalValue - s.TotalContributed
            /\ s.TotalMonths = h.args.totalMonths
            /\ s.TotalContributed = 0 => s.PercentageGain = 0
            /\ s.TotalContributed > 0 =>
                  IsPercentOf(s.PercentageGain, s.TotalGain, s.TotalContributed)
            /\ s.TotalContributed >= (flat + 50) \div 100
            /\ h.args.contributionGrowth = 0 =>
                  s.TotalContributed = (flat + 50) \div 100
            /\ s.HasRange = (DOMAIN h.runs = RunNames)
            /\ DOMAIN h.runs # RunNames =>
                  /\ s.PessimisticValue = None /\ s.OptimisticValue = None
                  /\ s.PessimisticGain = None /\ s.OptimisticGain = None
            /\ DOMAIN h.runs = RunNames =>
                  LET pess == h.runs["pessimistic"].projections
                      opt == h.runs["optimistic"].projections
                  IN  /\ s.PessimisticValue = Some(pess[Len(pess)].PortfolioValue)
                      /\ s.OptimisticValue = Some(opt[Len(opt)].PortfolioValue)
                      /\ s.PessimisticGain =
                            Some(pess[Len(pess)].PortfolioValue - s.TotalContributed)
                      /\ s.OptimisticGain =
                            Some(opt[Len(opt)].PortfolioValue - s.TotalContributed)
                      /\ s.TotalContributed > 0 =>
                            /\ IsPercentOf(Val(s.PessimisticPercent),
                                           Val(s.PessimisticGain), s.TotalContributed)
                            /\ IsPercentOf(Val(s.OptimisticPercent),
                                           Val(s.OptimisticGain), s.TotalContributed)

\* C15 witness: initial 10000 and 12 contributions of 500 at 7 percent give a
\* total contributed of 16000 and a gain of 890.15.
C15_Witness ==
    /\ Simulated
    /\ h.args.initial = 10000 * Money /\ h.args.monthlyBase = 500 * Money
    /\ h.args.totalMonths = 12 /\ h.args.contributionGrowth = 0
    /\ h.args.rates = [median |-> 700]
    /\ Val(h.summary).TotalContributed = 1600000
    /\ Val(h.summary).FinalValue = 1689015
    /\ Val(h.summary).TotalGain = 89015
    /\ Val(h.summary).PercentageGain = 56

\* C15 witness in range mode: the three final values differ and each gain is
\* taken against the one total contributed.
C15_RangeReached ==
    /\ Simulated
    /\ DOMAIN h.runs = RunNames
    /\ h.args.totalMonths = RangeMonths
    /\ Val(Val(h.summary).PessimisticGain) < Val(h.summary).TotalGain
    /\ Val(h.summary).TotalGain < Val(Val(h.summary).OptimisticGain)

\* C16 as stated: the monthly contribution of the last contribution milestone
\* is the monthly contribution of the last projection.
C16_LastMilestoneIsLastProjection ==
    Simulated =>
        LET milestones == Val(h.summary).ContributionMilestones
        IN  /\ milestones # <<>>
            /\ milestones[Len(milestones)].MonthlyContribution =
                  LastProjection.MonthlyContribution

\* C16, where it fails: the final year has a January projection, the run ends
\* after January and the contribution has grown in between.
C16_JanuaryStandsForFinalMonth ==
    /\ Simulated
    /\ h.args.contributionGrowth > 0
    /\ LastProjection.Month > 1
    /\ LET milestones == Val(h.summary).ContributionMilestones
       IN  /\ milestones[Len(milestones)].Year = LastProjection.Year
           /\ milestones[Len(milestones)].MonthlyContribution <
                 LastProjection.MonthlyContribution

C20_RunsShareNoState ==
    [][\A x \in DOMAIN h.runs :
          /\ h'.args = h.args
          /\ DOMAIN h'.runs = DOMAIN h.runs
          /\ h'.runs[x] # h.runs[x] =>
                /\ h'.runs[x] = StepMonth(h.runs[x])
                /\ \A y \in DOMAIN h.runs \ {x} : h'.runs[y] = h.runs[y]]_vars

-----------------------------------------------------------------------------
(* marketdata.YahooClient.CalculateStats in detail: the rolling returns of a
   series of prices and their percentiles.

   Prices are whole numbers. A rolling return is in 1/10 percent; the
   statistics are in 1/1000 percent, the unit roundTo2Decimals takes, so that
   an interpolation with a weight of hundredths is exact. The windows are of
   one year, where math.Pow(totalReturn, 1/rollingYears) is totalReturn. *)

\* PointsPerYear(interval), the switch.
PointsPerYearOf(interval) ==
    CASE interval = "1d" -> 252
      [] interval = "1wk" -> 52
      [] interval = "1mo" -> PointsPerYear
      [] interval = "3mo" -> 4
      [] OTHER -> 12

\* Lines 224-225 for rollingYears = 1: (endPrice/startPrice - 1) * 100.
annualizedReturn(startPrice, endPrice) ==
    RoundDiv(endPrice * 1000, startPrice) - 1000

\* Line 227 for rollingYears = 1: annualizedReturn > -50 && annualizedReturn < 100,
\* that is 1/2 < endPrice/startPrice < 2, compared without rounding.
Realistic(startPrice, endPrice) ==
    /\ 2 * endPrice > startPrice
    /\ endPrice < 2 * startPrice

\* Mutant of RollingPair: the window is one point short.
RollingPair_ShortWindow(points, i, rollingPeriod) ==
    [startPrice |-> points[(i - rollingPeriod) + 2], endPrice |-> points[i + 1]]

\* Lines 215-216: the prices of the pair of iteration i (i counts from 0 as in
\* the code, the sequence from 1).
RollingPair(points, i, rollingPeriod) ==
    [startPrice |-> points[(i - rollingPeriod) + 1], endPrice |-> points[i + 1]]

\* Lines 214-230: the rolling returns after iteration i.
RollOnce(points, i, rollingPeriod, rollingReturns) ==
    LET pair == RollingPair(points, i, rollingPeriod)
    IN  IF pair.startPrice <= 0 \/ pair.endPrice <= 0 THEN rollingReturns
        ELSE IF Realistic(pair.startPrice, pair.endPrice)
             THEN Append(rollingReturns,
                         annualizedReturn(pair.startPrice, pair.endPrice))
             ELSE rollingReturns

\* The sorted sequence with one more value, kept sorted.
RECURSIVE InsertSorted(_, _)
InsertSorted(sorted, v) ==
    IF sorted = <<>> THEN <<v>>
    ELSE IF v <= Head(sorted) THEN <<v>> \o sorted
    ELSE <<Head(sorted)>> \o InsertSorted(Tail(sorted), v)

\* Mutant of sortFloat64s: the copy is left in the order of the series.
sortFloat64s_Unsorted(values) == values

\* Lines 237-239: a sorted copy of the rolling returns.
RECURSIVE sortFloat64s(_)
sortFloat64s(values) ==
    IF values = <<>> THEN <<>>
    ELSE InsertSorted(sortFloat64s(Tail(values)), Head(values))

\* Mutant of percentile: the lower neighbour, without interpolation.
percentile_LowerNeighbour(sorted, p) ==
    IF Len(sorted) = 0 THEN 0
    ELSE 100 * sorted[(p * (Len(sorted) - 1)) \div 100 + 1]

\* percentile, lines 259-275; p in percent, index in hundredths.
percentile(sorted, p) ==
    IF Len(sorted) = 0 THEN 0
    ELSE LET index == p * (Len(sorted) - 1)
             lower == index \div 100
             upper == IF index % 100 = 0 THEN lower ELSE lower + 1
             weight == index - 100 * lower
         IN  IF lower = upper \/ upper >= Len(sorted)
             THEN 100 * sorted[lower + 1]
             ELSE sorted[lower + 1] * (100 - weight) + sorted[upper + 1] * weight

RECURSIVE SumOf(_)
SumOf(values) == IF values = <<>> THEN 0 ELSE Head(values) + SumOf(Tail(values))

RECURSIVE SumOfSquares(_)
SumOfSquares(values) ==
    IF values = <<>> THEN 0 ELSE Head(values) * Head(values) + SumOfSquares(Tail(values))

\* math.Sqrt to the whole number below.
RECURSIVE Sqrt(_, _, _)
Sqrt(lo, hi, v) ==
    IF lo >= hi THEN lo
    ELSE LET mid == (lo + hi + 1) \div 2
         IN  IF mid * mid <= v THEN Sqrt(mid, hi, v) ELSE Sqrt(lo, mid - 1, v)

\* standardDeviation, lines 278-299: sqrt(sum((v - mean)^2) / n), which is
\* sqrt(n * sum(v^2) - sum(v)^2) / n.
standardDeviation(values) ==
    IF Len(values) = 0 THEN 0
    ELSE LET n == Len(values)
             spread == n * SumOfSquares(values) - SumOf(values) * SumOf(values)
         IN  (10 * Sqrt(0, 40000, 100 * spread)) \div n

\* Lines 242-253: the statistics of the rolling returns.
IndexStats(rollingReturns, sorted) ==
    [AnnualizedReturn   |-> percentile(sorted, 50),
     Percentile5Return  |-> percentile(sorted, 5),
     Percentile95Return |-> percentile(sorted, 95),
     StandardDeviation  |-> standardDeviation(rollingReturns),
     RollingReturns     |-> rollingReturns]

\* The goroutine at the call of CalculateStats(data, rollingYears).
EnterCalculateStats(sym, interval, points, rollingYears) ==
    [pc |-> "calculate",
     data |-> [Symbol |-> sym, Interval |-> interval, DataPoints |-> points],
     rollingYears |-> rollingYears,
     i |-> 0, rollingReturns |-> <<>>, sorted |-> <<>>,
     stats |-> None, err |-> "", info |-> None]

\* Lines 202-212: the required number of points.
CheckPoints ==
    /\ h.pc = "calculate"
    /\ LET requiredPoints == PointsPerYearOf(h.data.Interval) * h.rollingYears
       IN  IF Len(h.data.DataPoints) < requiredPoints
           THEN h' = [h EXCEPT !.pc = "failed", !.err = "insufficient data"]
           ELSE h' = [h EXCEPT !.pc = "rolling",
                               !.i = h.rollingYears * PointsPerYearOf(h.data.Interval)]
    /\ UNCHANGED <<cache, mutex, lastUpdate, now, calls>>

\* Lines 214-230: one iteration of the loop.
RollingReturn ==
    /\ h.pc = "rolling"
    /\ h.i < Len(h.data.DataPoints)
    /\ h' = [h EXCEPT
                !.rollingReturns =
                    RollOnce(h.data.DataPoints, h.i,
                             h.rollingYears * PointsPerYearOf(h.data.Interval), @),
                !.i = @ + 1]
    /\ UNCHANGED <<cache, mutex, lastUpdate, now, calls>>

\* Lines 232-255: after the loop, the error or the statistics.
Percentiles ==
    /\ h.pc = "rolling"
    /\ h.i >= Len(h.data.DataPoints)
    /\ IF Len(h.rollingReturns) = 0
       THEN h' = [h EXCEPT !.pc = "failed", !.err = "no valid rolling returns calculated"]
       ELSE LET sorted == sortFloat64s(h.rollingReturns)
            IN  h' = [h EXCEPT !.pc = "calculated",
                               !.sorted = sorted,
                               !.stats = Some(IndexStats(h.rollingReturns, sorted))]
    /\ UNCHANGED <<cache, mutex, lastUpdate, now, calls>>

\* fetchAndCalculate, lines 116-127: the record for the cache.
RoundStats ==
    /\ h.pc = "calculated"
    /\ h' = [h EXCEPT !.pc = "rounded",
                      !.info = Some(MakeIndexInfo(h.data.Symbol, Val(h.stats),
                                                  h.rollingYears))]
    /\ UNCHANGED <<cache, mutex, lastUpdate, now, calls>>

\* Bounds of the series checked: points beyond the window.
MaxSamples == 4

\* The sequences over S of length n.
SeqsOf(S, n) == [1..n -> S]

\* Quarterly series: shorter than the window of 4 points, or a window of
\* prices followed by up to MaxSamples points, a price of 0 among them.
QuarterlySeries ==
    UNION {SeqsOf({100, 200}, n) : n \in 0..3}
    \cup
    {first \o window \o rest :
        first \in SeqsOf({0, 100, 200}, 1),
        window \in SeqsOf({100, 200}, 3),
        rest \in UNION {SeqsOf({0, 100, 125, 200}, n) : n \in 0..MaxSamples}}

\* Monthly series around the window of 12 points.
MonthlySeries ==
    {[k \in 1..11 |-> 100] \o rest : rest \in UNION {SeqsOf({100, 125}, n) : n \in 0..3}}

InitStats ==
    /\ cache \in {CacheAfterStartup(Symbols)}
    /\ mutex = None
    /\ lastUpdate = 0
    /\ now = 0
    /\ calls = [r \in Calls |-> IF r = StartupCall
                                THEN [IdleCall EXCEPT !.pc = "done"] ELSE IdleCall]
    /\ h \in {EnterCalculateStats("SPY", "3mo", points, 1) : points \in QuarterlySeries}
             \cup {EnterCalculateStats("EFA", "1mo", points, 1) : points \in MonthlySeries}

NextStats ==
    \/ CheckPoints
    \/ RollingReturn
    \/ Percentiles
    \/ RoundStats

SpecStats == InitStats /\ [][NextStats]_vars

-----------------------------------------------------------------------------
(* Properties of the statistics *)

\* The length L of the series and the points W the window requires.
SeriesLength == Len(h.data.DataPoints)
WindowPoints == h.rollingYears * PointsPerYearOf(h.data.Interval)

\* The call of CalculateStats has returned.
StatsReturned == h.pc \in {"failed", "calculated", "rounded"}

\* Every pair a window apart has positive prices and a return strictly between
\* -50 and 100 percent (end price strictly between half and twice the start).
CleanSeries ==
    \A k \in 1..(SeriesLength - WindowPoints) :
        LET startPrice == h.data.DataPoints[k]
            endPrice == h.data.DataPoints[k + WindowPoints]
        IN  /\ startPrice > 0 /\ endPrice > 0
            /\ 2 * endPrice > startPrice /\ endPrice < 2 * startPrice

\* C17: the call fails with the insufficient-data error, without statistics,
\* exactly when L < W; for a clean series with L > W it returns L - W rolling
\* returns, the k-th one the return from point k to point k + W (the code's
\* i = W + k - 1 paired with i - W), in the order of the series.
C17_SamplesPerWindow ==
    StatsReturned =>
        /\ (h.err = "insufficient data") = (SeriesLength < WindowPoints)
        /\ h.pc = "failed" => h.stats = None
        /\ SeriesLength < WindowPoints => h.pc = "failed"
        /\ (SeriesLength > WindowPoints /\ CleanSeries) =>
              /\ h.pc # "failed"
              /\ Len(h.rollingReturns) = SeriesLength - WindowPoints
              /\ Val(h.stats).RollingReturns = h.rollingReturns
              /\ \A k \in 1..Len(h.rollingReturns) :
                    h.rollingReturns[k] * h.data.DataPoints[k] =
                        1000 * (h.data.DataPoints[k + WindowPoints] - h.data.DataPoints[k])

\* C17 witness: a clean quarterly series of 8 points has given its 4 samples,
\* in the order of the series.
C17_Witness ==
    /\ h.pc = "calculated"
    /\ CleanSeries
    /\ WindowPoints = 4 /\ SeriesLength = 8
    /\ h.rollingReturns = <<250, 0 - 375, 0, 250>>

\* C17, the other half reached: a series shorter than the window has failed.
C17_ShortSeriesFailed ==
    /\ h.pc = "failed"
    /\ SeriesLength = WindowPoints - 1
    /\ h.err = "insufficient data"

\* C18: the statistics returned by CalculateStats, and the record rounded for
\* the cache, have pessimistic (5th percentile) <= median <= optimistic (95th
\* percentile).
C18_PercentilesInOrder ==
    /\ IsSome(h.stats) =>
          /\ Val(h.stats).Percentile5Return <= Val(h.stats).AnnualizedReturn
          /\ Val(h.stats).AnnualizedReturn <= Val(h.stats).Percentile95Return
    /\ IsSome(h.info) =>
          /\ Val(h.info).PessimisticReturn <= Val(h.info).MedianReturn
          /\ Val(h.info).MedianReturn <= Val(h.info).OptimisticReturn

\* C18 witness: samples out of order in the series, percentiles strictly in
\* order, and a pessimistic return that the rounding changes.
C18_Witness ==
    /\ h.pc = "rounded"
    /\ h.rollingReturns # h.sorted
    /\ Val(h.stats).Percentile5Return % 10 # 0
    /\ Val(h.info).PessimisticReturn < Val(h.info).MedianReturn
    /\ Val(h.info).MedianReturn < Val(h.info).OptimisticReturn

\* The value at index p/100 * (n - 1) of the sorted samples, interpolated
\* linearly between the neighbours (in 1/1000 percent, the index in
\* hundredths).
Interpolated(p) ==
    LET n == Len(h.sorted)
        below == (p * (n - 1)) \div 100
        part == p * (n - 1) - 100 * below
    IN  IF part = 0 THEN 100 * h.sorted[below + 1]
        ELSE 100 * h.sorted[below + 1] + part * (h.sorted[below + 2] - h.sorted[below + 1])

\* C19: the 50th percentile of the n >= 1 sorted samples is the median: the
\* middle element for odd n (the only one for n = 1), the mean of the two
\* middle elements for even n; every percentile is the value at index
\* p/100 * (n - 1), interpolated linearly between the neighbouring samples.
C19_PercentileIsInterpolated ==
    IsSome(h.stats) =>
        LET n == Len(h.sorted)
            median == Val(h.stats).AnnualizedReturn
        IN  /\ n >= 1
            /\ \A k \in 1..(n - 1) : h.sorted[k] <= h.sorted[k + 1]
            /\ n % 2 = 1 => median = 100 * h.sorted[(n + 1) \div 2]
            /\ n % 2 = 0 => 2 * median = 100 * (h.sorted[n \div 2] + h.sorted[n \div 2 + 1])
            /\ median = Interpolated(50)
            /\ Val(h.stats).Percentile5Return = Interpolated(5)
            /\ Val(h.stats).Percentile95Return = Interpolated(95)

\* C19 witness: four samples with different middle elements.
C19_Witness ==
    /\ h.pc = "calculated"
    /\ Len(h.sorted) = 4
    /\ h.sorted[2] < h.sorted[3]
    /\ Val(h.stats).AnnualizedReturn > 100 * h.sorted[2]
    /\ Val(h.stats).AnnualizedReturn < 100 * h.sorted[3]

\* C19, the other lengths reached: one, two and three samples.
C19_OneSample == h.pc = "calculated" /\ Len(h.sorted) = 1
C19_TwoSamples == h.pc = "calculated" /\ Len(h.sorted) = 2 /\ h.sorted[1] < h.sorted[2]
C19_ThreeSamples == h.pc = "calculated" /\ Len(h.sorted) = 3 /\ h.sorted[1] < h.sorted[2]

-----------------------------------------------------------------------------
(* Properties of the simulator: the order within a month, the milestones *)

\* An amount of the simulator (1/10000) rounded to 2 decimals (1/100).
Rounded(amount) ==
    IF amount >= 0 THEN (amount + 50) \div 100 ELSE 0 - ((50 - amount) \div 100)

\* C24: in every iteration of a run the calendar advances by one month, the
\* return of the month is applied to the balance the month began with, then
\* the contribution is added, then the projection is recorded with the
\* balance and the contribution of the month, then the contribution grows
\* for the next month.  The first iteration starts from the initial amount
\* and the base contribution, so the first value is
\* initial * (1 + monthlyRate) + monthlyBase (rounded to 2 decimals in the
\* projection) and the first contribution is monthlyBase.
C24_ReturnBeforeContribution ==
    [][\A x \in DOMAIN h.runs :
          h'.runs[x] # h.runs[x] =>
             LET run == h.runs[x]
                 next == h'.runs[x]
                 rec == next.projections[Len(next.projections)]
             IN  /\ Len(next.projections) = Len(run.projections) + 1
                 /\ MonthNumber(rec.Year, rec.Month) =
                       MonthNumber(run.currentYear, run.currentMonth) + 1
                 /\ next.balance =
                       run.balance + TimesRate(run.balance, run.monthlyReturnRate)
                           + run.currentContribution
                 /\ rec.PortfolioValue = Rounded(next.balance)
                 /\ rec.MonthlyContribution = Rounded(run.currentContribution)
                 /\ next.currentContribution =
                       run.currentContribution
                           + TimesRate(run.currentContribution,
                                       run.monthlyContributionGrowth)
                 /\ run.i = 0 =>
                       /\ run.balance = h.args.initial
                       /\ run.currentContribution = h.args.monthlyBase
                       /\ rec.MonthlyContribution = Rounded(h.args.monthlyBase)
                       /\ rec.PortfolioValue =
                             Rounded(h.args.initial
                                       + TimesRate(h.args.initial, run.monthlyReturnRate)
                                       + h.args.monthlyBase)]_vars

\* C24 witness: 10000 at 7 percent with 500 a month growing 3 percent a year:
\* the first value is 10000 * 1.00565414 + 500 = 10556.54, the first
\* contribution 500 and the second one larger.
C24_Witness ==
    /\ DOMAIN h.runs = {"median"}
    /\ h.args.initial = 10000 * Money /\ h.args.monthlyBase = 500 * Money
    /\ h.args.rates["median"] = 700 /\ h.args.contributionGrowth = 300
    /\ h.runs["median"].i = 2
    /\ h.runs["median"].projections[1].PortfolioValue = 1055654
    /\ h.runs["median"].projections[1].MonthlyContribution = 50000
    /\ h.runs["median"].projections[2].MonthlyContribution > 50000

\* The milestones of the summary and the years they should cover.
Milestones == Val(h.summary).ContributionMilestones

AnniversaryYears ==
    {y \in (h.args.startYear + 1)..LastProjection.Year :
        (y - h.args.startYear) % 5 = 0}

C25_SameYearReached ==
    /\ Simulated
    /\ LastProjection.Year = h.args.startYear
    /\ Len(Milestones) = 1
    /\ h.args.contributionGrowth > 0
    /\ Milestones[1].MonthlyContribution = LastProjection.MonthlyContribution

-----------------------------------------------------------------------------
(* marketdata.YahooClient.FetchHistoricalData: the payload of the provider
   parsed into price points.

   A JSON array of the payload is a sequence whose elements are None for
   null and Some(v) for the number v; v is a whole price.  A timestamp is
   the position of the point in the provider's series. *)

\* encoding/json into a float64 element: null leaves the zero value.
Decode(array) == [k \in 1..Len(array) |-> IF IsSome(array[k]) THEN Val(array[k]) ELSE 0]

\* safeFloat(slice, index), index counted from 0.
safeFloat(slice, index) == IF index < Len(slice) THEN slice[index + 1] ELSE 0

\* Lines 175-188: the point of index i; adjClose is None for the nil slice.
PointAt(close, adjClose, i) ==
    [Date |-> i + 1,
     Close |-> safeFloat(close, i),
     AdjClose |-> IF IsSome(adjClose) /\ i < Len(Val(adjClose))
                  THEN Val(adjClose)[i + 1]
                  ELSE safeFloat(close, i)]

\* The goroutine in FetchHistoricalData with the response decoded (line 136):
\* Close is the decoded array of the first quote, AdjClose the decoded array
\* of the first adjclose entry or None when the payload has none.
EnterFetch(payload) ==
    [pc |-> "decoded", payload |-> payload,
     Timestamp |-> payload.timestamp,
     Close |-> Decode(payload.close),
     AdjClose |-> IF IsSome(payload.adjclose)
                  THEN Some(Decode(Val(payload.adjclose))) ELSE None,
     i |-> 0, DataPoints |-> <<>>, err |-> ""]

\* Lines 148-151: a result without timestamps is an error.
CheckTimestamps ==
    /\ h.pc = "decoded"
    /\ h' = IF Len(h.Timestamp) = 0
            THEN [h EXCEPT !.pc = "failed", !.err = "no timestamps in data"]
            ELSE [h EXCEPT !.pc = "parse"]
    /\ UNCHANGED <<cache, mutex, lastUpdate, now, calls>>

\* Lines 169-191: one iteration of the loop over the timestamps.
ParsePoint ==
    /\ h.pc = "parse"
    /\ h.i < Len(h.Timestamp)
    /\ h' = IF h.i >= Len(h.Close) \/ h.Close[h.i + 1] = 0
            THEN [h EXCEPT !.i = @ + 1]
            ELSE [h EXCEPT !.i = @ + 1,
                           !.DataPoints = Append(@, PointAt(h.Close, h.AdjClose, h.i))]
    /\ UNCHANGED <<cache, mutex, lastUpdate, now, calls>>

\* Line 193: return data, nil.
ReturnData ==
    /\ h.pc = "parse"
    /\ h.i >= Len(h.Timestamp)
    /\ h' = [h EXCEPT !.pc = "fetched"]
    /\ UNCHANGED <<cache, mutex, lastUpdate, now, calls>>

\* Bound of the payloads checked: the number of timestamps.
MaxPoints == 3

\* The JSON arrays of at most n elements over the numbers of S and null.
ArraysOf(S, n) == UNION {[1..m -> {None} \cup {Some(v) : v \in S}] : m \in 0..n}

\* The payloads of the provider: up to MaxPoints timestamps, a close array no
\* longer than that with nulls and zeros, and no adjclose array or one with
\* nulls.
Payloads ==
    {[timestamp |-> [k \in 1..n |-> k], close |-> c, adjclose |-> a] :
        n \in 0..MaxPoints,
        c \in ArraysOf({0, 100}, MaxPoints),
        a \in {None} \cup {Some(x) : x \in ArraysOf({98}, MaxPoints)}}

InitFetch ==
    /\ cache \in {CacheAfterStartup(Symbols)}
    /\ mutex = None
    /\ lastUpdate = 0
    /\ now = 0
    /\ calls = [r \in Calls |-> IF r = StartupCall
                                THEN [IdleCall EXCEPT !.pc = "done"] ELSE IdleCall]
    /\ h \in {EnterFetch(payload) : payload \in Payloads}

NextFetch ==
    \/ CheckTimestamps
    \/ ParsePoint
    \/ ReturnData

SpecFetch == InitFetch /\ [][NextFetch]_vars

-----------------------------------------------------------------------------
(* Properties of the fetch *)

\* The provider's close and adjusted close of the point at position k: None
\* when the array is absent, too short or has null there.
ProviderClose(k) ==
    IF k <= Len(h.payload.close) THEN h.payload.close[k] ELSE None

ProviderAdjClose(k) ==
    IF IsSome(h.payload.adjclose) /\ k <= Len(Val(h.payload.adjclose))
    THEN Val(h.payload.adjclose)[k] ELSE None

\* The positions of the provider's points that have a close price (present and
\* not zero).
WithClose ==
    {k \in 1..Len(h.payload.timestamp) :
        IsSome(ProviderClose(k)) /\ Val(ProviderClose(k)) # 0}

\* C26, first half: the returned points are the provider's points that have a
\* close price, in the provider's order, each with the provider's close.
C26_PointsWithCloseKept ==
    h.pc = "fetched" =>
        /\ {h.DataPoints[j].Date : j \in 1..Len(h.DataPoints)} = WithClose
        /\ Len(h.DataPoints) = Cardinality(WithClose)
        /\ \A j \in 1..(Len(h.DataPoints) - 1) :
              h.DataPoints[j].Date < h.DataPoints[j + 1].Date
        /\ \A j \in 1..Len(h.DataPoints) :
              /\ h.DataPoints[j].Close # 0
              /\ h.DataPoints[j].Close = Val(ProviderClose(h.DataPoints[j].Date))

\* C26 as stated: the points with a close are kept in order, and the adjusted
\* close of a returned point is the provider's when the provider supplied one
\* and the point's close when it is absent, so it is never zero beside a
\* valid close.
C26_AdjCloseDefaultsToClose ==
    h.pc = "fetched" =>
        /\ C26_PointsWithCloseKept
        /\ \A j \in 1..Len(h.DataPoints) :
              LET point == h.DataPoints[j]
                  supplied == ProviderAdjClose(point.Date)
              IN  /\ IsSome(supplied) => point.AdjClose = Val(supplied)
                  /\ ~IsSome(supplied) => point.AdjClose = point.Close
                  /\ point.AdjClose # 0

\* C26, where it fails: a returned point with a close and an adjusted close
\* of zero, the provider's adjclose array having null at its position.
C26_NullAdjCloseBecomesZero ==
    /\ h.pc = "fetched"
    /\ \E j \in 1..Len(h.DataPoints) :
          /\ h.DataPoints[j].Close = 100
          /\ h.DataPoints[j].AdjClose = 0
          /\ ProviderAdjClose(h.DataPoints[j].Date) = None

-----------------------------------------------------------------------------
(* marketdata.IndexService.fetchAndCalculate step by step, inside the loop of
   one call of Initialize over an empty cache. *)

\* Years of monthly history the provider may return in this specification:
\* below, at and above the 10-year and the 20-year window.
LoadYears == {5, 10, 15, 20, 25}

\* The goroutine at the head of the loop of Initialize.  attempts is the log
\* of the calculations made for each symbol: the window and whether it
\* succeeded.
EnterLoad ==
    [pc |-> "fetch", i |-> 1, data |-> None, stats |-> None, rollingYears |-> 0,
     attempts |-> [s \in Symbols |-> <<>>], fetched |-> [s \in {} |-> None],
     skipped |-> {}]

\* fetchAndCalculate, lines 100-103: the fetch fails and the symbol is skipped
\* (Initialize, lines 65-71), or it returns a series.
FetchData ==
    /\ h.pc = "fetch"
    /\ h.i <= NumIndexes
    /\ LET sym == DefaultSupportedIndexes[h.i]
       IN  \/ h' = [h EXCEPT !.i = @ + 1, !.skipped = @ \cup {sym}]
           \/ \E y \in LoadYears :
                 h' = [h EXCEPT !.pc = "calc20",
                                !.data = Some(HistoricalData(sym, now, y)),
                                !.fetched = MapStore(@, sym, HistoricalData(sym, now, y))]
    /\ UNCHANGED <<cache, mutex, lastUpdate, now, calls>>

\* One call of CalculateStats with the window w: the result in stats and in
\* the log.
Calculated(w) ==
    LET sym == DefaultSupportedIndexes[h.i]
        stats == CalculateStats(Val(h.data), w)
    IN  [h EXCEPT !.attempts[sym] = Append(@, <<w, IsSome(stats)>>),
                  !.stats = stats, !.rollingYears = w]

\* fetchAndCalculate, lines 106-108: the 20-year window first; its failure
\* leads to the 10-year window.
Calculate20 ==
    /\ h.pc = "calc20"
    /\ h' = IF IsSome(Calculated(20).stats)
            THEN [Calculated(20) EXCEPT !.pc = "build"]
            ELSE [Calculated(20) EXCEPT !.pc = "calc10"]
    /\ UNCHANGED <<cache, mutex, lastUpdate, now, calls>>

\* Mutant of Calculate10: the failure of the 10-year window ends the load.
Calculate10_EndsLoad ==
    /\ h.pc = "calc10"
    /\ h' = IF IsSome(Calculated(10).stats)
            THEN [Calculated(10) EXCEPT !.pc = "build"]
            ELSE [Calculated(10) EXCEPT
                     !.pc = "done", !.data = None, !.rollingYears = 0,
                     !.skipped = @ \cup {DefaultSupportedIndexes[h.i]}]
    /\ UNCHANGED <<cache, mutex, lastUpdate, now, calls>>

\* fetchAndCalculate, lines 109-114: the 10-year window; its failure is the
\* error of fetchAndCalculate, and Initialize goes on with the next symbol.
Calculate10 ==
    /\ h.pc = "calc10"
    /\ h' = IF IsSome(Calculated(10).stats)
            THEN [Calculated(10) EXCEPT !.pc = "build"]
            ELSE [Calculated(10) EXCEPT
                     !.pc = "fetch", !.i = @ + 1, !.data = None, !.rollingYears = 0,
                     !.skipped = @ \cup {DefaultSupportedIndexes[h.i]}]
    /\ UNCHANGED <<cache, mutex, lastUpdate, now, calls>>

\* fetchAndCalculate, lines 116-127, and Initialize, lines 74-76: the record
\* is built and stored.
BuildAndStore ==
    /\ h.pc = "build"
    /\ mutex = None
    /\ LET sym == DefaultSupportedIndexes[h.i]
       IN  cache' = MapStore(cache, sym, MakeIndexInfo(sym, Val(h.stats), h.rollingYears))
    /\ h' = [h EXCEPT !.pc = "fetch", !.i = @ + 1, !.data = None, !.stats = None,
                      !.rollingYears = 0]
    /\ UNCHANGED <<mutex, lastUpdate, now, calls>>

\* Initialize after the loop.
LoadDone ==
    /\ h.pc = "fetch"
    /\ h.i > NumIndexes
    /\ h' = [h EXCEPT !.pc = "done"]
    /\ UNCHANGED <<cache, mutex, lastUpdate, now, calls>>

InitLoad ==
    /\ cache = [s \in {} |-> None]
    /\ mutex = None
    /\ lastUpdate = ZeroTime
    /\ now = 0
    /\ calls = [r \in Calls |-> IdleCall]
    /\ h = EnterLoad

NextLoad ==
    \/ FetchData
    \/ Calculate20
    \/ Calculate10
    \/ BuildAndStore
    \/ LoadDone

SpecLoad == InitLoad /\ [][NextLoad]_vars

-----------------------------------------------------------------------------
(* Properties of the per-symbol load *)

\* The points a window of w years requires of a monthly series.
RequiredPoints(w) == w * 12

\* C23: for every symbol the calculations made are the 20-year window, then,
\* only after its failure, the 10-year window, and nothing else; a series too
\* short for 20 years is calculated with 10; the record stored has
\* rollingPeriodYears 20 exactly when the 20-year calculation succeeded and 10
\* otherwise; a symbol whose fetch or whose two calculations failed is skipped
\* and the load goes on: when the load is done every symbol is stored or
\* skipped.  The record is the one the abstract load of the cache
\* specifications gives for the series.
C23_TwentyThenTenThenSkip ==
    /\ \A s \in Symbols :
          LET a == h.attempts[s]
          IN  /\ a \in {<<>>, <<<<20, TRUE>>>>, <<<<20, FALSE>>>>,
                        <<<<20, FALSE>>, <<10, TRUE>>>>, <<<<20, FALSE>>, <<10, FALSE>>>>}
              /\ s \in DOMAIN cache =>
                    /\ a # <<>>
                    /\ cache[s].RollingPeriodYears \in {10, 20}
                    /\ (cache[s].RollingPeriodYears = 20) = (a = <<<<20, TRUE>>>>)
                    /\ (cache[s].RollingPeriodYears = 10) = (Len(a) = 2)
                    /\ cache[s].RollingPeriodYears = a[Len(a)][1]
                    /\ a[Len(a)][2]
                    /\ Some(cache[s]) = CalculateWithFallback(h.fetched[s])
              /\ (s \in DOMAIN h.fetched /\ Len(a) >= 1) =>
                    /\ h.fetched[s].NumPoints < RequiredPoints(20) => a[1] = <<20, FALSE>>
                    /\ h.fetched[s].NumPoints > RequiredPoints(20) => a = <<<<20, TRUE>>>>
              /\ (s \in DOMAIN h.fetched /\ Len(a) = 2) =>
                    a[2][2] = (h.fetched[s].NumPoints > RequiredPoints(10))
              /\ s \in h.skipped =>
                    /\ s \notin DOMAIN cache
                    /\ a \in {<<>>, <<<<20, FALSE>>, <<10, FALSE>>>>}
                    /\ s \in DOMAIN h.fetched => CalculateWithFallback(h.fetched[s]) = None
    /\ h.pc = "done" =>
          /\ h.i = NumIndexes + 1
          /\ \A s \in Symbols : s \in DOMAIN cache \/ s \in h.skipped

\* C23 witness: the load is done; the first symbol failed both windows and
\* was skipped, the second one is stored with 20 years, the third with 10.
C23_Witness ==
    /\ h.pc = "done"
    /\ h.skipped = {"SPY"}
    /\ h.attempts["SPY"] = <<<<20, FALSE>>, <<10, FALSE>>>>
    /\ cache["QQQ"].RollingPeriodYears = 20
    /\ cache["EFA"].RollingPeriodYears = 10
    /\ h.attempts["EFA"] = <<<<20, FALSE>>, <<10, TRUE>>>>

-----------------------------------------------------------------------------
(* Properties of concurrent reloads *)

\* The instants of the clock.
Instants == {k * TickHours : k \in 0..(MaxClock \div TickHours)}

\* The instant of the fetch a record was computed from: the provider's
\* history differs from instant to instant.
FetchedAt(info) ==
    CHOOSE t \in Instants :
        \E y \in SeriesYears(info.Symbol) :
            Some(info) = CalculateWithFallback(HistoricalData(info.Symbol, t, y))

\* C21 as stated, its last part: no reload overwrites the record of a symbol
\* with one computed from an older fetch.
C21_NoOlderFetchOverwrites ==
    [][\A s \in DOMAIN cache :
          /\ s \in DOMAIN cache'
          /\ FetchedAt(cache'[s]) >= FetchedAt(cache[s])]_vars

\* C21, the duplicate: two reloads are in flight at once, started by two
\* requests that both found the timestamp stale.
C21_TwoReloadsInFlight ==
    /\ \A r \in Refreshers : calls[r].pc \in {"loop", "lock", "locked"}
    /\ h.spawned

\* C21, where it fails: a reload holds the lock with a record fetched before
\* the one the cache has for the symbol, which the other reload stored.
C21_OlderRecordAboutToOverwrite ==
    \E r \in Refreshers :
        /\ calls[r].pc = "locked"
        /\ DefaultSupportedIndexes[calls[r].i] \in DOMAIN cache
        /\ FetchedAt(Val(calls[r].info)) <
              FetchedAt(cache[DefaultSupportedIndexes[calls[r].i]])

-----------------------------------------------------------------------------
(* Properties of the lock *)

\* The request in progress is at a read of the cache.
AtRead == h.pc \in {"getAll", "blend", "index"}

\* C22: the lock is held by a call of Initialize only between its Lock and its
\* Unlock, with the record already fetched and calculated; the step of the
\* holder stores that one record and releases the lock; the step in which a
\* call fetches and calculates neither begins nor ends with the lock held by
\* that call; a read never fetches, stores or starts a call, and it waits for
\* nothing but the lock, which its holder can always release by the store.
C22_LockOnlyAroundStore ==
    /\ [](\A r \in Calls :
             mutex = Some(r) =>
                /\ calls[r].pc = "locked"
                /\ IsSome(calls[r].info)
                /\ ENABLED StoreAndUnlock(r))
    /\ []((AtRead /\ mutex = None) =>
             ENABLED (GetIndexesRespond \/ BlendGetIndex \/ IndexGetIndex))
    /\ [][/\ \A r \in Calls :
                /\ (calls[r].pc = "loop" /\ calls[r].i <= NumIndexes
                        /\ calls'[r] # calls[r])
                      => (mutex # Some(r) /\ mutex' # Some(r))
                /\ (mutex = Some(r) /\ calls'[r] # calls[r])
                      => /\ mutex' = None
                         /\ cache' = MapStore(cache, DefaultSupportedIndexes[calls[r].i],
                                              Val(calls[r].info))
          /\ (AtRead /\ h' # h)
                => (calls' = calls /\ cache' = cache /\ lastUpdate' = lastUpdate
                       /\ mutex' = mutex)]_vars

\* C22 witness: the listing request that started a reload has its response
\* while the reload is between two fetches, one record already stored.
C22_Witness ==
    /\ h.pc = "responded" /\ h.spawned
    /\ mutex = None
    /\ \E r \in ServeRefreshers :
          /\ calls[r].pc = "loop"
          /\ calls[r].loaded # {}
          /\ calls[r].i <= NumIndexes

-----------------------------------------------------------------------------
(* Properties of the accesses to the shared fields *)

\* The call r is at line 88, the write of lastUpdate, made without the lock.
AtStamp(r) == calls[r].pc = "loop" /\ calls[r].i > NumIndexes

\* The call r is at line 90, the read of len(s.cache), made without the lock.
AtMapSize(r) == calls[r].pc = "check"

\* The call r is at line 75, the write of the map, made with the lock.
AtMapStore(r) == calls[r].pc = "locked"

\* A request can enter RefreshIfNeeded, whose read of lastUpdate (line 152) is
\* made without the lock.
AtFreshnessCheck == Serving /\ h.pc = "idle"

\* C27 as stated: no two goroutines are at accesses of the same shared field,
\* one of them a write, without the lock ordering them: no write of
\* lastUpdate beside another write or a read of it, no read of the map's size
\* beside a write of the map.
C27_NoUnlockedConflict ==
    /\ \A r \in Calls : \A q \in Calls \ {r} : ~(AtStamp(r) /\ AtStamp(q))
    /\ \A r \in Calls : ~(AtStamp(r) /\ AtFreshnessCheck)
    /\ \A r \in Calls : \A q \in Calls \ {r} : ~(AtMapSize(r) /\ AtMapStore(q))

\* C27, where it fails: a reload is about to write lastUpdate while a request
\* can read it in RefreshIfNeeded; two reloads are about to write it; a
\* reload reads the size of the map while the other one stores into it.
C27_StampBesideFreshnessCheck ==
    \E r \in Refreshers : AtStamp(r) /\ AtFreshnessCheck

C27_TwoStamps ==
    \E r \in Refreshers : \E q \in Refreshers \ {r} : AtStamp(r) /\ AtStamp(q)

C27_MapSizeBesideStore ==
    \E r \in Refreshers : \E q \in Refreshers \ {r} : AtMapSize(r) /\ AtMapStore(q)

-----------------------------------------------------------------------------
(* The service with the index listing, a provider whose loads all succeed and *)
(* goroutines that are scheduled fairly.                                      *)

\* A step of the call r of Initialize when fetchAndCalculate succeeds.
InitializeStep(r) ==
    \/ LoadSucceeds(r)
    \/ Lock(r)
    \/ StoreAndUnlock(r)
    \/ Stamp(r)
    \/ Return(r)
    \/ Exit(r)

NextLive ==
    \/ \E r \in Calls : InitializeStep(r)
    \/ Tick
    \/ GetIndexesRefresh(Refreshers)
    \/ GetIndexesRespond
    \/ Deliver

\* The Go scheduler runs every runnable goroutine: a call of Initialize that
\* can take a step takes one; the only thing it waits for is the lock, which
\* its holder releases in its next step.  The handler answers.
Fairness ==
    /\ \A r \in Calls : WF_vars(InitializeStep(r))
    /\ WF_vars(GetIndexesRespond)

SpecLive == Init /\ [][NextLive]_vars /\ Fairness

-----------------------------------------------------------------------------
(* Liveness of the refresh *)

\* Every supported symbol has a record computed from a fetch made at T or
\* later, and the timestamp is T or later.
RefreshedSince(T) ==
    /\ lastUpdate >= T
    /\ \A s \in Symbols : s \in DOMAIN cache /\ FetchedAt(cache[s]) >= T

\* The listing request in progress found the cache stale and started a
\* reload, which at T has not made its first fetch yet.
StaleListingAt(T) ==
    /\ h.pc = "getAll" /\ h.spawned
    /\ now = T
    /\ \E r \in Refreshers : calls[r] = EnteredCall

\* C28 as stated: a listing request that finds the cache stale at T and starts
\* a reload leads to a cache whose records all come from fetches of T or later
\* with the timestamp advanced; and a reload starts only when the age of the
\* timestamp has reached the TTL.
C28_StaleListingLeadsToRefreshedCache ==
    /\ \A T \in Instants : StaleListingAt(T) ~> RefreshedSince(T)
    /\ [][\A r \in Refreshers :
             (calls[r].pc = "idle" /\ calls'[r].pc = "loop")
                => ~IsFresh(now, lastUpdate)]_vars

\* C28, where it fails: a listing request finds the cache stale and starts a
\* reload while the reload started by an earlier request, its timestamp not
\* written yet, holds a record computed from a fetch made before this request;
\* it stores that record after the new reload stored its own.
C28_OlderReloadHoldsRecord ==
    \E r \in Refreshers : \E q \in Refreshers \ {r} :
        /\ h.pc = "getAll" /\ h.spawned /\ h.arrivedStale
        /\ calls[q] = EnteredCall
        /\ calls[r].pc = "lock"
        /\ FetchedAt(Val(calls[r].info)) < now

-----------------------------------------------------------------------------
(* Properties of the blend beside a reload *)

\* The place of a symbol in the loop of Initialize.
LoadOrder(sym) == CHOOSE i \in 1..NumIndexes : DefaultSupportedIndexes[i] = sym

\* The request in progress is a blend that has read, for one allocation, a
\* record that the reload r has replaced since, and for another allocation
\* the record that r stored after that: two records the cache never held
\* together.
BlendMixes(r) ==
    /\ IsSome(h.req)
    /\ Len(Val(h.req).Portfolio) > 0
    /\ \E j \in 1..Len(h.read) : \E k \in 1..Len(h.read) :
          LET sj == Val(h.req).Portfolio[j].Symbol
              sk == Val(h.req).Portfolio[k].Symbol
          IN  /\ sj \in calls[r].loaded
              /\ sk \in calls[r].loaded
              /\ LoadOrder(sj) < LoadOrder(sk)
              /\ IsSome(h.read[j])
              /\ h.read[j] # Some(cache[sj])
              /\ h.read[k] = Some(cache[sk])

\* C29 as stated: no blend that is answered combines the record a symbol had
\* before the reload in progress with the record that reload stored for
\* another symbol.
C29_BlendReadsOneCacheState ==
    (h.pc = "responded" /\ IsSome(h.resp) /\ Val(h.resp).status = 200)
        => \A r \in Calls : ~BlendMixes(r)

\* C29, where it fails: the blend is answered from the record SPY had before
\* the reload and the record the reload stored for QQQ.
C29_BlendOfOldAndNew ==
    /\ h.pc = "responded"
    /\ Val(h.resp).status = 200
    /\ \E r \in ServeRefreshers : BlendMixes(r)

-----------------------------------------------------------------------------
(* The simulate handlers from an accepted request to the summary: the call of *)
(* the simulator is the one the handler makes.                                *)

\* Requests of both modes from a start in January, June and December: periods
\* of whole years, targets in the year of the start and in later years, before
\* and after the month of the start, and the target month left out; some of
\* them with an index, which makes the handler call simulateWithRange.
EndRequests ==
    {[BaseYears EXCEPT !.Years = y, !.today = t] :
        y \in {1, 2}, t \in {<<2025, 1>>, <<2025, 6>>, <<2025, 12>>}}
    \cup
    {[BaseTarget EXCEPT !.TargetYear = ty, !.TargetMonth = tm, !.today = t] :
        ty \in {2025, 2026, 2027}, tm \in {None, Some(1), Some(6), Some(7), Some(12)},
        t \in {<<2025, 1>>, <<2025, 6>>, <<2025, 12>>}}
    \cup
    {[BaseYears EXCEPT !.IndexSymbol = Some("SPY")],
     [BaseTarget EXCEPT !.IndexSymbol = Some("QQQ"), !.TargetYear = 2025,
                        !.TargetMonth = None],
     [BaseTarget EXCEPT !.IndexSymbol = Some("SPY"), !.TargetMonth = Some(1)]}

\* The response of the handler to req over the cache c, the lookups done.
HandlerResponse(c, req) ==
    IF ValidateRequest(req) # "" THEN ErrorResponse(ValidateRequest(req))
    ELSE IF HasIndexSymbol(req)
    THEN FinishSimulation(req, Some(IndexRates(c[Val(req.IndexSymbol)])), None)
    ELSE FinishSimulation(req, None, None)

\* The call of simulateMonthly or simulateWithRange in that response (lines
\* 245-268 and 403-426), in the units of the simulator: amounts in 1/10000,
\* rates in 1/100 percent.
CallOf(c, req) ==
    LET sim == Val(HandlerResponse(c, req).sim)
        perRateUnit == RateUnit \div 100
    IN  [initial |-> sim.initial * Money,
         monthlyBase |-> sim.monthlyBase * Money,
         startYear |-> sim.startYear, startMonth |-> sim.startMonth,
         totalMonths |-> sim.totalMonths,
         rates |-> IF IsSome(sim.rates)
                   THEN [x \in RunNames |-> Val(sim.rates)[x] \div perRateUnit]
                   ELSE [median |-> sim.annualRate \div perRateUnit],
         contributionGrowth |-> sim.contributionGrowth,
         endYear |-> sim.endYear, endMonth |-> sim.endMonth]

Accepted(c, req) == HandlerResponse(c, req).status = 200

InitEnd ==
    /\ cache \in {CacheAfterStartup(Symbols)}
    /\ mutex = None
    /\ lastUpdate = 0
    /\ now = 0
    /\ calls = [r \in Calls |-> IF r = StartupCall
                                THEN [IdleCall EXCEPT !.pc = "done"] ELSE IdleCall]
    /\ h \in {EnterSimulation(CallOf(cache, req)) :
                req \in {q \in EndRequests : Accepted(cache, q)}}

SpecEnd == InitEnd /\ [][NextRun]_vars

\* C30: when the simulation of an accepted request has returned, the number
\* of projections is summary.totalMonths and is, in target-date mode,
\* (targetYear - startYear) * 12 + (targetMonth - startMonth), December when
\* the month is left out, and in years mode years * 12; the last projection
\* is dated (targetYear, targetMonth), in years mode (startYear + years,
\* startMonth); the summary's targetDate is that month and year.
C30_LastProjectionOnEndDate ==
    \A req \in EndRequests :
        (Accepted(cache, req) /\ Simulated /\ h.args = CallOf(cache, req)) =>
            LET start == req.today
                targetMonth == IF IsSome(req.TargetMonth) THEN Val(req.TargetMonth) ELSE 12
                endDate == IF req.mode = "years"
                           THEN <<start[1] + req.Years, start[2]>>
                           ELSE <<req.TargetYear, targetMonth>>
                months == IF req.mode = "years" THEN req.Years * 12
                          ELSE (req.TargetYear - start[1]) * 12 + (targetMonth - start[2])
                summary == Val(h.summary)
            IN  /\ Len(h.projections) = months
                /\ summary.TotalMonths = months
                /\ <<LastProjection.Year, LastProjection.Month>> = endDate
                /\ summary.TargetDate = <<endDate[2], endDate[1]>>

\* C30 witness: a target of January 2026 asked in June 2025 has run its seven
\* months, the month of the target before the month of the start.
C30_Witness ==
    /\ Simulated
    /\ h.args = CallOf(cache, [BaseTarget EXCEPT !.TargetMonth = Some(1)])
    /\ Len(h.projections) = 7
    /\ <<LastProjection.Year, LastProjection.Month>> = <<2026, 1>>
    /\ Val(h.summary).TargetDate = <<1, 2026>>

=============================================================================
